---- MODULE Spec2Model ----
(***************************************************************************)
(* Period comparison of the analytics dashboard: the derivation of the     *)
(* previous period from a date range and a view type, the aggregation of   *)
(* the rows of both periods by a dimension, the merge of the two summaries *)
(* with the change percentages, and the narrative of significant movers.   *)
(*                                                                         *)
(* Dates are proleptic Gregorian ordinals (date.toordinal()), so that a    *)
(* Timedelta is integer addition and a DateOffset(months=n) is the         *)
(* calendar-month shift with the day clamped to the target month.          *)
(***************************************************************************)
EXTENDS Integers, Sequences, FiniteSets, TLC

VARIABLES data, dimension, date_range, view_type, called, previous_period, output,
          column, timeframe, today, start_on_monday, weekday, sheets

vars == <<data, dimension, date_range, view_type, called, previous_period, output,
          column, timeframe, today, start_on_monday, weekday, sheets>>

\* what a call reads and leaves as it is: the rows, the arguments and the
\* selections of the page, the date of the run and the sheets of the spreadsheet
inputs == <<data, dimension, date_range, view_type,
            column, timeframe, today, start_on_monday, weekday, sheets>>

\* the same without the rows
selections == <<dimension, date_range, view_type,
                column, timeframe, today, start_on_monday, weekday, sheets>>

(***************************************************************************)
(* Calendar arithmetic of pd.Timestamp                                     *)
(***************************************************************************)
Min(a, b) == IF a <= b THEN a ELSE b

Max(a, b) == IF a >= b THEN a ELSE b

IsLeap(y) == (y % 4 = 0) /\ ((y % 100 # 0) \/ (y % 400 = 0))

DaysInMonth(y, m) ==
    IF m = 2 THEN (IF IsLeap(y) THEN 29 ELSE 28)
    ELSE IF m \in {4, 6, 9, 11} THEN 30 ELSE 31

RECURSIVE DaysBeforeMonth(_, _)
DaysBeforeMonth(y, m) ==
    IF m = 1 THEN 0 ELSE DaysBeforeMonth(y, m - 1) + DaysInMonth(y, m - 1)

DaysBeforeYear(y) ==
    (y - 1) * 365 + ((y - 1) \div 4) - ((y - 1) \div 100) + ((y - 1) \div 400)

\* Timestamp(year, month, day) as an ordinal
Timestamp(y, m, d) == DaysBeforeYear(y) + DaysBeforeMonth(y, m) + d

\* .year, .month, .day of a Timestamp
Year(n) ==
    LET y0 == ((n - 1) * 400) \div 146097 + 1
    IN  IF DaysBeforeYear(y0) >= n THEN y0 - 1
        ELSE IF DaysBeforeYear(y0 + 1) < n THEN y0 + 1
        ELSE y0

Month(n) ==
    LET y == Year(n)
        doy == n - DaysBeforeYear(y)
    IN  CHOOSE m \in 1..12 :
            /\ DaysBeforeMonth(y, m) < doy
            /\ doy <= DaysBeforeMonth(y, m) + DaysInMonth(y, m)

Day(n) == n - DaysBeforeYear(Year(n)) - DaysBeforeMonth(Year(n), Month(n))

\* ts - pd.DateOffset(months=k): the month moves back k calendar months and
\* the day of month is kept, clamped to the length of the target month
SubDateOffsetMonths(n, k) ==
    LET idx == Year(n) * 12 + (Month(n) - 1) - k
        y   == idx \div 12
        m   == (idx % 12) + 1
    IN  Timestamp(y, m, Min(Day(n), DaysInMonth(y, m)))

\* ts - pd.Timedelta(days=k)
SubTimedeltaDays(n, k) == n - k

\* the number of calendar months of the current period
months_diff(start_date, end_date) ==
    (Year(end_date) - Year(start_date)) * 12
        + Month(end_date) - Month(start_date) + 1

(***************************************************************************)
(* The previous period, one definition per implementation                  *)
(***************************************************************************)
\* a variant without the single-day case and with a block one day short
previous_period_sales_analysis_short(start_date, end_date, vt) ==
    IF vt = "Monthly"
    THEN <<SubDateOffsetMonths(start_date, months_diff(start_date, end_date)),
           SubDateOffsetMonths(end_date, months_diff(start_date, end_date))>>
    ELSE LET period_length == end_date - start_date
         IN  <<SubTimedeltaDays(start_date, period_length),
               SubTimedeltaDays(start_date, 1)>>

\* sales_analysis.create_sales_summary_with_comparison
previous_period_sales_analysis(start_date, end_date, vt) ==
    IF start_date = end_date
    THEN IF vt = "Monthly"
         THEN <<SubDateOffsetMonths(start_date, 1), SubDateOffsetMonths(start_date, 1)>>
         ELSE <<SubTimedeltaDays(start_date, 1), SubTimedeltaDays(start_date, 1)>>
    ELSE IF vt = "Monthly"
         THEN <<SubDateOffsetMonths(start_date, months_diff(start_date, end_date)),
                SubDateOffsetMonths(end_date, months_diff(start_date, end_date))>>
         ELSE LET period_length == end_date - start_date
              IN  <<SubTimedeltaDays(start_date, period_length + 1),
                    SubTimedeltaDays(start_date, 1)>>

\* a variant whose 7-day week moves back by (end - start).days
previous_period_summary_generator_six(start_date, end_date, vt) ==
    IF vt = "Monthly"
    THEN <<SubDateOffsetMonths(start_date, months_diff(start_date, end_date)),
           SubDateOffsetMonths(end_date, months_diff(start_date, end_date))>>
    ELSE LET days_diff == end_date - start_date
         IN  IF days_diff = 6
             THEN <<SubTimedeltaDays(start_date, days_diff),
                    SubTimedeltaDays(end_date, days_diff)>>
             ELSE <<SubTimedeltaDays(start_date, days_diff + 1),
                    SubTimedeltaDays(start_date, 1)>>

\* summary_generator.analyze_performance
previous_period_summary_generator(start_date, end_date, vt) ==
    IF vt = "Monthly"
    THEN <<SubDateOffsetMonths(start_date, months_diff(start_date, end_date)),
           SubDateOffsetMonths(end_date, months_diff(start_date, end_date))>>
    ELSE LET days_diff == end_date - start_date
         IN  IF days_diff = 6
             THEN <<SubTimedeltaDays(start_date, 7), SubTimedeltaDays(end_date, 7)>>
             ELSE <<SubTimedeltaDays(start_date, days_diff + 1),
                    SubTimedeltaDays(start_date, 1)>>

\* a variant whose previous block runs up to the start date itself
previous_period_dashboard_to_start(start_date, end_date) ==
    LET is_weekly == (end_date - start_date) = 6
    IN  IF is_weekly
        THEN <<SubTimedeltaDays(start_date, 7), SubTimedeltaDays(end_date, 7)>>
        ELSE LET current_period_length == end_date - start_date
             IN  <<SubTimedeltaDays(start_date, current_period_length), start_date>>

\* dashboard.create_sales_summary_with_comparison (takes no view type)
previous_period_dashboard(start_date, end_date) ==
    LET is_weekly == (end_date - start_date) = 6
    IN  IF is_weekly
        THEN <<SubTimedeltaDays(start_date, 7), SubTimedeltaDays(end_date, 7)>>
        ELSE LET current_period_length == end_date - start_date
             IN  <<SubTimedeltaDays(start_date, current_period_length),
                   SubTimedeltaDays(start_date, 1)>>

\* a variant whose block of equal length ends on the start date itself
previous_period_dashboard_components_overlap(start_date, end_date, vt) ==
    IF vt = "Monthly"
    THEN <<SubDateOffsetMonths(start_date, months_diff(start_date, end_date)),
           SubDateOffsetMonths(end_date, months_diff(start_date, end_date))>>
    ELSE LET is_weekly == (end_date - start_date) = 6
         IN  IF is_weekly
             THEN <<SubTimedeltaDays(start_date, 7), SubTimedeltaDays(end_date, 7)>>
             ELSE LET current_period_length == end_date - start_date
                  IN  <<SubTimedeltaDays(start_date, current_period_length),
                        start_date>>

\* dashboard_components.create_sales_summary_with_comparison
previous_period_dashboard_components(start_date, end_date, vt) ==
    IF vt = "Monthly"
    THEN <<SubDateOffsetMonths(start_date, months_diff(start_date, end_date)),
           SubDateOffsetMonths(end_date, months_diff(start_date, end_date))>>
    ELSE LET is_weekly == (end_date - start_date) = 6
         IN  IF is_weekly
             THEN <<SubTimedeltaDays(start_date, 7), SubTimedeltaDays(end_date, 7)>>
             ELSE LET current_period_length == end_date - start_date
                  IN  <<SubTimedeltaDays(start_date, current_period_length + 1),
                        SubTimedeltaDays(start_date, 1)>>

\* dashboard_components.create_pivot_analysis_with_comparison (takes no view
\* type: a range that starts on the first of a month is taken as monthly)
previous_period_pivot_dashboard_components(start_date, end_date) ==
    LET is_monthly == Day(start_date) = 1
    IN  IF is_monthly
        THEN <<SubDateOffsetMonths(start_date, months_diff(start_date, end_date)),
               SubDateOffsetMonths(end_date, months_diff(start_date, end_date))>>
        ELSE LET is_weekly == (end_date - start_date) = 6
             IN  IF is_weekly
                 THEN <<SubTimedeltaDays(start_date, 7), SubTimedeltaDays(end_date, 7)>>
                 ELSE LET period_length == end_date - start_date
                      IN  <<SubTimedeltaDays(start_date, period_length),
                            SubTimedeltaDays(start_date, 1)>>

\* sales_visualizations.create_pivot_analysis_with_comparison (takes no view type)
previous_period_pivot_sales_visualizations(start_date, end_date) ==
    LET is_weekly == (end_date - start_date) = 6
    IN  IF is_weekly
        THEN <<SubTimedeltaDays(start_date, 7), SubTimedeltaDays(end_date, 7)>>
        ELSE LET period_length == end_date - start_date
             IN  <<SubTimedeltaDays(start_date, period_length),
                   SubTimedeltaDays(start_date, 1)>>

(***************************************************************************)
(* Rows, cells and rounding                                                *)
(***************************************************************************)
\* a numeric cell of a DataFrame: a number (scaled integer), NaN, or the
\* string 'New' that fillna puts into the change columns
Num(v) == [tag |-> "num", v |-> v]
NaN    == [tag |-> "nan", v |-> 0]
New    == [tag |-> "New", v |-> 0]

Abs(x) == IF x < 0 THEN -x ELSE x

\* how a call ends: it returns a value or raises an exception
NoOutput == [status |-> "none", value |-> <<>>]

Return(v) == [status |-> "return", value |-> v]

Raise(e) == [status |-> "raise", value |-> e]

\* round(num / den) to the nearest integer, ties to even (numpy's round),
\* for den > 0
RoundHalfEven(num, den) ==
    LET a == Abs(num)
        q == a \div den
        r == a % den
        up == (2 * r > den) \/ (2 * r = den /\ q % 2 = 1)
        m == IF up THEN q + 1 ELSE q
    IN  IF num < 0 THEN -m ELSE m

\* the order of the dimension values (groupby sorts its keys)
KeyOrder == <<"A", "B", "C", "D", "E", "F", "P1", "P2", "P3", "P4", "Total">>

KeyRank(k) == CHOOSE i \in 1..Len(KeyOrder) : KeyOrder[i] = k

\* data[(data['Date'].dt.date >= lo) & (data['Date'].dt.date <= hi)]
FilterByDate(d, lo, hi) == SelectSeq(d, LAMBDA r : r.Date >= lo /\ r.Date <= hi)

RECURSIVE GroupSum(_, _, _, _)
GroupSum(d, dim, key, col) ==
    IF d = <<>> THEN 0
    ELSE (IF Head(d)[dim] = key THEN Head(d)[col] ELSE 0)
            + GroupSum(Tail(d), dim, key, col)

GroupKeys(d, dim) == {d[i][dim] : i \in DOMAIN d}

\* the keys of a groupby, ascending
RECURSIVE SortedKeys(_)
SortedKeys(S) ==
    IF S = {} THEN <<>>
    ELSE LET k == CHOOSE x \in S : \A y \in S : KeyRank(x) <= KeyRank(y)
         IN  <<k>> \o SortedKeys(S \ {k})

RECURSIVE ColumnSum(_, _)
ColumnSum(rows, col) ==
    IF rows = <<>> THEN 0 ELSE Head(rows)[col] + ColumnSum(Tail(rows), col)

\* a / b as a float rounded to `scale` decimals (scale = 10 or 100 per unit):
\* x / 0 is NaN for x = 0 and +-inf otherwise; replace(0, nan) in the callers
\* makes the divisor NaN before it is used
Ratio(a, b, scale) == IF b = 0 THEN NaN ELSE Num(RoundHalfEven(a * scale, b))

(***************************************************************************)
(* create_summary: the aggregation of one period by a dimension            *)
(***************************************************************************)
\* a variant that summarises an empty period as one key without sales
create_summary_blank_row(period_data, dim) ==
    LET keys == IF period_data = <<>> THEN <<"A">>
                ELSE SortedKeys(GroupKeys(period_data, dim))
        grouped == [i \in 1..Len(keys) |->
                      [key |-> keys[i],
                       SalesDollars |-> GroupSum(period_data, dim, keys[i], "SalesDollars"),
                       UnitsSold |-> GroupSum(period_data, dim, keys[i], "UnitsSold")]]
        total_sales == ColumnSum(grouped, "SalesDollars")
        total_units == ColumnSum(grouped, "UnitsSold")
    IN  [i \in 1..Len(keys) |->
           [key |-> grouped[i].key,
            SalesDollars |-> grouped[i].SalesDollars,
            UnitsSold |-> grouped[i].UnitsSold,
            AveragePrice |-> Ratio(grouped[i].SalesDollars, grouped[i].UnitsSold, 100),
            RevenuePct |-> Ratio(grouped[i].SalesDollars * 100, total_sales, 10),
            UnitsPct |-> Ratio(grouped[i].UnitsSold * 100, total_units, 10)]]

\* a variant that prices a key without units at 0
create_summary_zero_price(period_data, dim) ==
    IF period_data = <<>> THEN <<>>
    ELSE
      LET keys == SortedKeys(GroupKeys(period_data, dim))
          grouped == [i \in 1..Len(keys) |->
                        [key |-> keys[i],
                         SalesDollars |-> GroupSum(period_data, dim, keys[i], "SalesDollars"),
                         UnitsSold |-> GroupSum(period_data, dim, keys[i], "UnitsSold")]]
          total_sales == ColumnSum(grouped, "SalesDollars")
          total_units == ColumnSum(grouped, "UnitsSold")
      IN  [i \in 1..Len(keys) |->
             [key |-> grouped[i].key,
              SalesDollars |-> grouped[i].SalesDollars,
              UnitsSold |-> grouped[i].UnitsSold,
              AveragePrice |-> IF grouped[i].UnitsSold = 0 THEN Num(0)
                               ELSE Ratio(grouped[i].SalesDollars, grouped[i].UnitsSold, 100),
              RevenuePct |-> Ratio(grouped[i].SalesDollars * 100, total_sales, 10),
              UnitsPct |-> Ratio(grouped[i].UnitsSold * 100, total_units, 10)]]

\* a variant whose percentages are rounded to whole percents
create_summary_whole_pct(period_data, dim) ==
    IF period_data = <<>> THEN <<>>
    ELSE
      LET keys == SortedKeys(GroupKeys(period_data, dim))
          grouped == [i \in 1..Len(keys) |->
                        [key |-> keys[i],
                         SalesDollars |-> GroupSum(period_data, dim, keys[i], "SalesDollars"),
                         UnitsSold |-> GroupSum(period_data, dim, keys[i], "UnitsSold")]]
          total_sales == ColumnSum(grouped, "SalesDollars")
          total_units == ColumnSum(grouped, "UnitsSold")
          Whole(cell) == IF cell.tag = "num" THEN Num(cell.v * 10) ELSE cell
      IN  [i \in 1..Len(keys) |->
             [key |-> grouped[i].key,
              SalesDollars |-> grouped[i].SalesDollars,
              UnitsSold |-> grouped[i].UnitsSold,
              AveragePrice |-> Ratio(grouped[i].SalesDollars, grouped[i].UnitsSold, 100),
              RevenuePct |-> Whole(Ratio(grouped[i].SalesDollars * 100, total_sales, 1)),
              UnitsPct |-> Whole(Ratio(grouped[i].UnitsSold * 100, total_units, 1))]]

create_summary(period_data, dim) ==
    IF period_data = <<>> THEN <<>>
    ELSE
      LET keys == SortedKeys(GroupKeys(period_data, dim))
          grouped == [i \in 1..Len(keys) |->
                        [key |-> keys[i],
                         SalesDollars |-> GroupSum(period_data, dim, keys[i], "SalesDollars"),
                         UnitsSold |-> GroupSum(period_data, dim, keys[i], "UnitsSold")]]
          total_sales == ColumnSum(grouped, "SalesDollars")
          total_units == ColumnSum(grouped, "UnitsSold")
      IN  [i \in 1..Len(keys) |->
             [key |-> grouped[i].key,
              SalesDollars |-> grouped[i].SalesDollars,
              UnitsSold |-> grouped[i].UnitsSold,
              AveragePrice |-> Ratio(grouped[i].SalesDollars, grouped[i].UnitsSold, 100),
              RevenuePct |-> Ratio(grouped[i].SalesDollars * 100, total_sales, 10),
              UnitsPct |-> Ratio(grouped[i].UnitsSold * 100, total_units, 10)]]

(***************************************************************************)
(* The merge of the two summaries and the change percentages               *)
(***************************************************************************)
HasKey(summary, k) == \E i \in DOMAIN summary : summary[i].key = k

RowOf(summary, k) == summary[CHOOSE i \in DOMAIN summary : summary[i].key = k]

\* current_summary.merge(previous_summary, on=dimension, how='left',
\* suffixes=('', '_prev')): the rows of the left side in their order, the
\* columns of the right side NaN where the key is missing there
merge_left(current_summary, previous_summary) ==
    [i \in 1..Len(current_summary) |->
        LET c == current_summary[i]
            found == HasKey(previous_summary, c.key)
            p == RowOf(previous_summary, c.key)
        IN  [key |-> c.key,
             SalesDollars |-> c.SalesDollars,
             UnitsSold |-> c.UnitsSold,
             AveragePrice |-> c.AveragePrice,
             RevenuePct |-> c.RevenuePct,
             UnitsPct |-> c.UnitsPct,
             SalesDollars_prev |-> IF found THEN Num(p.SalesDollars) ELSE NaN,
             UnitsSold_prev |-> IF found THEN Num(p.UnitsSold) ELSE NaN]]

\* a variant that takes the change as a share of the current value
change_pct_of_current(cur, prev) ==
    IF prev.tag = "nan" \/ prev.v = 0 \/ cur = 0 THEN NaN
    ELSE Num(RoundHalfEven((cur - prev.v) * 1000, cur))

\* ((cur - prev) / prev.replace(0, nan) * 100).round(1), in tenths of a percent
change_pct(cur, prev) ==
    IF prev.tag = "nan" \/ prev.v = 0 THEN NaN
    ELSE Num(RoundHalfEven((cur - prev.v) * 1000, prev.v))

\* a variant that fills the missing changes with 0
fillna_zero(cell) == IF cell.tag = "nan" THEN Num(0) ELSE cell

\* column.fillna('New')
fillna_New(cell) == IF cell.tag = "nan" THEN New ELSE cell

\* the change columns of the merged summary
with_changes(summary) ==
    [i \in 1..Len(summary) |->
        [key |-> summary[i].key,
         SalesDollars |-> summary[i].SalesDollars,
         UnitsSold |-> summary[i].UnitsSold,
         AveragePrice |-> summary[i].AveragePrice,
         RevenuePct |-> summary[i].RevenuePct,
         UnitsPct |-> summary[i].UnitsPct,
         SalesDollars_prev |-> summary[i].SalesDollars_prev,
         UnitsSold_prev |-> summary[i].UnitsSold_prev,
         RevenueChangePct |->
            fillna_New(change_pct(summary[i].SalesDollars, summary[i].SalesDollars_prev)),
         UnitsChangePct |->
            fillna_New(change_pct(summary[i].UnitsSold, summary[i].UnitsSold_prev))]]

\* rows.sort_values(col, ascending=False): rows of equal value keep their order
RECURSIVE sort_values_desc(_, _)
sort_values_desc(rows, col) ==
    IF rows = <<>> THEN <<>>
    ELSE LET i == CHOOSE j \in DOMAIN rows :
                    /\ \A k \in DOMAIN rows : rows[k][col] <= rows[j][col]
                    /\ \A k \in 1..(j - 1) : rows[k][col] < rows[j][col]
             rest == [k \in 1..(Len(rows) - 1) |-> IF k < i THEN rows[k] ELSE rows[k + 1]]
         IN  <<rows[i]>> \o sort_values_desc(rest, col)

\* the part of create_sales_summary_with_comparison after the previous
\* period is known; it is the same in the three files
summary_with_comparison(d, dim, start_date, end_date, prev) ==
    LET current_period_data == FilterByDate(d, start_date, end_date)
        previous_period_data == FilterByDate(d, prev[1], prev[2])
        current_summary == create_summary(current_period_data, dim)
        previous_summary == create_summary(previous_period_data, dim)
    IN  sort_values_desc(with_changes(merge_left(current_summary, previous_summary)),
                         "SalesDollars")

(***************************************************************************)
(* create_pivot_analysis_with_comparison: the pivot of one dimension       *)
(***************************************************************************)
\* pd.pivot_table(d, values=metric, index=[dim], aggfunc='sum', margins=True,
\* margins_name='Total').reset_index(): one row per key, ascending, and the
\* margin row with the sum over the rows of d
pivot_table(d, dim, metric) ==
    LET keys == SortedKeys(GroupKeys(d, dim))
    IN  [i \in 1..Len(keys) |->
            [key |-> keys[i], value |-> GroupSum(d, dim, keys[i], metric)]]
        \o <<[key |-> "Total", value |-> ColumnSum(d, metric)]>>

\* the rows of current_pivot.merge(previous_pivot, on=[dim], how='outer',
\* suffixes=('', '_prev')).fillna(0): the keys of both sides, ascending
merge_outer_fillna(current_pivot, previous_pivot) ==
    LET keys == SortedKeys({current_pivot[i].key : i \in DOMAIN current_pivot}
                            \cup {previous_pivot[i].key : i \in DOMAIN previous_pivot})
        ValueOf(pivot, k) ==
            IF \E i \in DOMAIN pivot : pivot[i].key = k
            THEN pivot[CHOOSE i \in DOMAIN pivot : pivot[i].key = k].value
            ELSE 0
    IN  [i \in 1..Len(keys) |->
            [key |-> keys[i],
             Current |-> ValueOf(current_pivot, keys[i]),
             Previous |-> ValueOf(previous_pivot, keys[i])]]

\* np.where(prev == 0, 'New', ((cur - prev) / prev * 100).round(1))
pivot_change_pct(cur, prev) ==
    IF prev = 0 THEN New ELSE Num(RoundHalfEven((cur - prev) * 1000, prev))

\* a variant that sorts the Total row in with the other rows
pivot_with_comparison_total_sorted(d, dim, metric, start_date, end_date, prev, total_divisor) ==
    LET current_data == FilterByDate(d, start_date, end_date)
        previous_data == FilterByDate(d, prev[1], prev[2])
        merged_pivot == merge_outer_fillna(pivot_table(current_data, dim, metric),
                                           pivot_table(previous_data, dim, metric))
        current_total == ColumnSum(merged_pivot, "Current")
        with_pct == [i \in 1..Len(merged_pivot) |->
                        [key |-> merged_pivot[i].key,
                         Current |-> merged_pivot[i].Current,
                         Previous |-> merged_pivot[i].Previous,
                         ChangePct |-> pivot_change_pct(merged_pivot[i].Current,
                                                        merged_pivot[i].Previous),
                         PctOfTotal |-> Ratio(merged_pivot[i].Current * 100 * total_divisor,
                                              current_total, 10)]]
    IN  sort_values_desc(with_pct, "Current")

\* the merged pivot with its two percentage columns, sorted: the rows other
\* than Total by the current value, descending, then the Total row.
\* total_divisor is 1 where '% of Total' divides by the sum of the column and
\* 2 where it divides by half of it
pivot_with_comparison(d, dim, metric, start_date, end_date, prev, total_divisor) ==
    LET current_data == FilterByDate(d, start_date, end_date)
        previous_data == FilterByDate(d, prev[1], prev[2])
        merged_pivot == merge_outer_fillna(pivot_table(current_data, dim, metric),
                                           pivot_table(previous_data, dim, metric))
        current_total == ColumnSum(merged_pivot, "Current")
        with_pct == [i \in 1..Len(merged_pivot) |->
                        [key |-> merged_pivot[i].key,
                         Current |-> merged_pivot[i].Current,
                         Previous |-> merged_pivot[i].Previous,
                         ChangePct |-> pivot_change_pct(merged_pivot[i].Current,
                                                        merged_pivot[i].Previous),
                         PctOfTotal |-> Ratio(merged_pivot[i].Current * 100 * total_divisor,
                                              current_total, 10)]]
        non_total == sort_values_desc(SelectSeq(with_pct, LAMBDA r : r.key # "Total"),
                                      "Current")
        total_row == SelectSeq(with_pct, LAMBDA r : r.key = "Total")
    IN  non_total \o total_row

(***************************************************************************)
(* analyze_performance: the narrative of the significant movers            *)
(***************************************************************************)
\* the sales floor in dollars, the significance threshold in percent and the
\* number of products named per retailer
min_sales_threshold == 1000

significant_change_pct == 10

top_n_products == 3

\* a returned text is the sequence of its lines; each of the two fixed
\* messages is a text of one line
NoThresholdMessage ==
    <<[kind |-> "message",
       text |-> "No retailers met the minimum sales threshold of $1,000 in either period."]>>

NoChangesMessage ==
    <<[kind |-> "message",
       text |-> "No retailers with >=$1,000 in sales showed significant changes (>=10%) in revenue compared to the previous period."]>>

\* the rows of a frame whose index is a set: pd.Index(set(...)) lists the
\* keys in the iteration order of the set, here the order `order`
IndexOrder(S, order) == SelectSeq(order, LAMBDA k : k \in S)

\* get_product_performance: one row per product of the retailer in either period
get_product_performance(retailer_data, retailer_prev_data, order) ==
    LET all_products == GroupKeys(retailer_data, "ProductTitle")
                            \cup GroupKeys(retailer_prev_data, "ProductTitle")
        index == IndexOrder(all_products, order)
    IN  [i \in 1..Len(index) |->
            LET c == GroupSum(retailer_data, "ProductTitle", index[i], "SalesDollars")
                p == GroupSum(retailer_prev_data, "ProductTitle", index[i], "SalesDollars")
                status == IF c > 0 /\ p = 0 THEN "New"
                          ELSE IF c = 0 /\ p > 0 THEN "Lost"
                          ELSE "Existing"
            IN  [name |-> index[i],
                 CurrentSales |-> c,
                 PreviousSales |-> p,
                 Change |-> c - p,
                 Status |-> status,
                 ChangePct |-> IF status = "Existing" THEN Ratio((c - p) * 100, p, 10)
                               ELSE NaN]]

\* the first n rows
Take(rows, n) == SubSeq(rows, 1, Min(n, Len(rows)))

\* frame.nlargest(n, col): descending, rows of equal value in frame order
nlargest(rows, n, col) == Take(sort_values_desc(rows, col), n)

\* frame.nsmallest(n, col): ascending, rows of equal value in frame order
RECURSIVE sort_values_asc(_, _)
sort_values_asc(rows, col) ==
    IF rows = <<>> THEN <<>>
    ELSE LET i == CHOOSE j \in DOMAIN rows :
                    /\ \A k \in DOMAIN rows : rows[k][col] >= rows[j][col]
                    /\ \A k \in 1..(j - 1) : rows[k][col] > rows[j][col]
             rest == [k \in 1..(Len(rows) - 1) |-> IF k < i THEN rows[k] ELSE rows[k + 1]]
         IN  <<rows[i]>> \o sort_values_asc(rest, col)

nsmallest(rows, n, col) == Take(sort_values_asc(rows, col), n)

\* a variant that sorts the entries in ascending order
RECURSIVE sort_entries_ascending(_)
sort_entries_ascending(S) ==
    IF S = {} THEN <<>>
    ELSE LET e == CHOOSE x \in S : \A y \in S :
                    \/ x.sales < y.sales
                    \/ x.sales = y.sales /\ KeyRank(x.retailer) <= KeyRank(y.retailer)
         IN  <<e>> \o sort_entries_ascending(S \ {e})

\* entries.sort(reverse=True) on (sales, line) tuples: by sales, then by the
\* text of the line, which starts with the name of the retailer
RECURSIVE sort_entries_reverse(_)
sort_entries_reverse(S) ==
    IF S = {} THEN <<>>
    ELSE LET e == CHOOSE x \in S : \A y \in S :
                    \/ x.sales > y.sales
                    \/ x.sales = y.sales /\ KeyRank(x.retailer) >= KeyRank(y.retailer)
         IN  <<e>> \o sort_entries_reverse(S \ {e})

\* the text of the products of a line: name, dollars and the change text
product_texts(products, kind) ==
    [i \in 1..Len(products) |->
        [name |-> products[i].name,
         sales |-> IF kind = "lost" THEN products[i].PreviousSales
                   ELSE products[i].CurrentSales,
         change |-> IF kind = "new" THEN "new"
                    ELSE IF kind = "lost" THEN "previous period"
                    ELSE IF kind = "up"
                         THEN (IF products[i].Status = "New" THEN "new" ELSE "up")
                         ELSE (IF products[i].Status = "Lost" THEN "no sales" ELSE "down"),
         pct |-> IF kind \in {"up", "down"} /\ products[i].Status = "Existing"
                 THEN Abs(products[i].ChangePct.v) ELSE 0]]

\* the entries of one kind: (sales, line) with the products of the line
entries_of(retailers, perf_df, products, kind) ==
    {[sales |-> IF kind = "lost" THEN perf_df[r].Previous ELSE perf_df[r].Current,
      retailer |-> r,
      kind |-> kind,
      pct |-> IF kind \in {"up", "down"} THEN Abs(perf_df[r].ChangePct) ELSE 0,
      products |-> product_texts(products[r], kind)] : r \in retailers}

\* the products named for a retailer: the significant risers by change for an
\* increase, the significant fallers by change for a decrease, the top
\* products by current sales for a new and by previous sales for a lost one
top_products(changes, kind) ==
    IF kind = "up"
    THEN nlargest(SelectSeq(changes, LAMBDA x :
                    \/ x.Status = "Existing" /\ x.ChangePct.tag = "num"
                          /\ x.ChangePct.v >= significant_change_pct * 10
                    \/ x.Status = "New"),
                  top_n_products, "Change")
    ELSE IF kind = "down"
    THEN nsmallest(SelectSeq(changes, LAMBDA x :
                    \/ x.Status = "Existing" /\ x.ChangePct.tag = "num"
                          /\ x.ChangePct.v <= -(significant_change_pct * 10)
                    \/ x.Status = "Lost"),
                   top_n_products, "Change")
    ELSE nlargest(changes, top_n_products,
                  IF kind = "new" THEN "CurrentSales" ELSE "PreviousSales")

\* a heading of the report: "The following retailers (with >=$1,000 in sales)
\* showed significant increases:" and the same for the decreases
heading(block) ==
    [sales |-> 0, retailer |-> "", kind |-> block, pct |-> 0, products |-> <<>>]

\* lines.append(heading) and lines.extend(line for _, line in entries), done
\* only where there are entries
block_lines(block, entries) ==
    IF entries = {} THEN <<>>
    ELSE <<heading(block)>> \o sort_entries_reverse(entries)

\* the lines of the report and the way the function ends, given the four
\* sets of retailers and the products to name for each of them
report(perf_df, products, increases, new_retailers, decreases, lost_retailers) ==
    \* new_retailers is a list by now and a list has no attribute size: the
    \* test of the closing message is evaluated up to its first false operand
    IF increases = {}
    THEN Raise("AttributeError: 'list' object has no attribute 'size'")
    ELSE Return(block_lines("increases",
                    entries_of(increases, perf_df, products, "up")
                        \cup entries_of(new_retailers, perf_df, products, "new"))
                \o block_lines("decreases",
                    entries_of(decreases, perf_df, products, "down")
                        \cup entries_of(lost_retailers, perf_df, products, "lost")))

\* a variant that takes every change of an existing retailer as significant
kind_of_any_change(row) ==
    IF row.Current > 0 /\ row.Previous = 0 THEN "new"
    ELSE IF row.Current = 0 /\ row.Previous > 0 THEN "lost"
    ELSE IF row.Current > 0 /\ row.Previous > 0
         THEN (IF row.ChangePct > 0 THEN "up"
               ELSE IF row.ChangePct < 0 THEN "down" ELSE "none")
    ELSE "none"

\* the kind of a retailer of perf_df: new, lost, up or down for the four sets,
\* none for an existing retailer whose change is below the threshold
kind_of(row) ==
    IF row.Current > 0 /\ row.Previous = 0 THEN "new"
    ELSE IF row.Current = 0 /\ row.Previous > 0 THEN "lost"
    ELSE IF row.Current > 0 /\ row.Previous > 0
                /\ Abs(row.ChangePct) >= significant_change_pct * 10
         THEN (IF row.ChangePct > 0 THEN "up"
               ELSE IF row.ChangePct < 0 THEN "down" ELSE "none")
    ELSE "none"

\* a variant whose new retailers are all those with sales in the current
\* period, whatever their sales in the previous one
classify_new_with_previous(current_data, previous_data, order, perf_df) ==
    IF DOMAIN perf_df = {} THEN Return(NoThresholdMessage)
    ELSE report(perf_df,
                [r \in DOMAIN perf_df |->
                    top_products(
                        get_product_performance(
                            SelectSeq(current_data, LAMBDA x : x.Retailer = r),
                            SelectSeq(previous_data, LAMBDA x : x.Retailer = r), order),
                        kind_of(perf_df[r]))],
                {r \in DOMAIN perf_df : kind_of(perf_df[r]) = "up"},
                {r \in DOMAIN perf_df : perf_df[r].Current > 0},
                {r \in DOMAIN perf_df : kind_of(perf_df[r]) = "down"},
                {r \in DOMAIN perf_df : kind_of(perf_df[r]) = "lost"})

\* perf_df after the floor, with its 'Change %' column in tenths (0 stands for
\* the NaN of the retailers that are not in both periods)
classify(current_data, previous_data, order, perf_df) ==
    IF DOMAIN perf_df = {} THEN Return(NoThresholdMessage)
    ELSE report(perf_df,
                [r \in DOMAIN perf_df |->
                    top_products(
                        get_product_performance(
                            SelectSeq(current_data, LAMBDA x : x.Retailer = r),
                            SelectSeq(previous_data, LAMBDA x : x.Retailer = r), order),
                        kind_of(perf_df[r]))],
                {r \in DOMAIN perf_df : kind_of(perf_df[r]) = "up"},
                {r \in DOMAIN perf_df : kind_of(perf_df[r]) = "new"},
                {r \in DOMAIN perf_df : kind_of(perf_df[r]) = "down"},
                {r \in DOMAIN perf_df : kind_of(perf_df[r]) = "lost"})

\* a variant without the floor of $1,000
performance_no_floor(current_data, previous_data, order, sales) ==
    classify(current_data, previous_data, order,
        [r \in DOMAIN sales |->
            [Current |-> sales[r].Current,
             Previous |-> sales[r].Previous,
             ChangePct |->
                IF sales[r].Current > 0 /\ sales[r].Previous > 0
                THEN RoundHalfEven((sales[r].Current - sales[r].Previous) * 1000,
                                   sales[r].Previous)
                ELSE 0]])

\* the sales of every retailer of either period, then the floor of $1,000
performance(current_data, previous_data, order, sales) ==
    classify(current_data, previous_data, order,
        [r \in {x \in DOMAIN sales :
                    sales[x].Current >= min_sales_threshold
                        \/ sales[x].Previous >= min_sales_threshold} |->
            [Current |-> sales[r].Current,
             Previous |-> sales[r].Previous,
             ChangePct |->
                IF sales[r].Current > 0 /\ sales[r].Previous > 0
                THEN RoundHalfEven((sales[r].Current - sales[r].Previous) * 1000,
                                   sales[r].Previous)
                ELSE 0]])

period_performance(current_data, previous_data, order) ==
    performance(current_data, previous_data, order,
        [r \in GroupKeys(current_data, "Retailer")
                    \cup GroupKeys(previous_data, "Retailer") |->
            [Current |-> GroupSum(current_data, "Retailer", r, "SalesDollars"),
             Previous |-> GroupSum(previous_data, "Retailer", r, "SalesDollars")]])

analyze_performance_result(d, start_date, end_date, prev, order) ==
    period_performance(FilterByDate(d, start_date, end_date),
                       FilterByDate(d, prev[1], prev[2]), order)

(***************************************************************************)
(* clean_dimension_values: the normalisation of the Color and Size cells   *)
(***************************************************************************)
\* a Color or Size cell as the loader leaves it: a Python str, written as the
\* sequence of its characters, or None where the sheet's row was short
Str(s) == [tag |-> "str", s |-> s]

PyNone == [tag |-> "None", s |-> <<>>]

\* column.astype(str): str(None) is 'None', a str stays as it is
astype_str(cell) == IF cell.tag = "None" THEN Str(<<"N", "o", "n", "e">>) ELSE cell

\* replace_values = ['0', '0.0', 'nan', 'None', 'none', 'null', '', ' ']
replace_values ==
    { <<"0">>, <<"0", ".", "0">>, <<"n", "a", "n">>, <<"N", "o", "n", "e">>,
      <<"n", "o", "n", "e">>, <<"n", "u", "l", "l">>, <<>>, <<" ">> }

NA == Str(<<"N", "/", "A">>)

\* the characters str.strip() removes
Whitespace == {" ", "\t", "\n", "\r"}

RECURSIVE lstrip(_)
lstrip(s) ==
    IF s # <<>> /\ Head(s) \in Whitespace THEN lstrip(Tail(s)) ELSE s

RECURSIVE rstrip(_)
rstrip(s) ==
    IF s # <<>> /\ s[Len(s)] \in Whitespace
    THEN rstrip(SubSeq(s, 1, Len(s) - 1)) ELSE s

\* x.strip()
strip(s) == rstrip(lstrip(s))

\* column.replace(replace_values, 'N/A'): a cell equal to one of the values
replace_with_NA(cell) == IF cell.s \in replace_values THEN NA ELSE cell

\* a variant without the last step, the test of x.strip()
clean_cell_listed_only(cell) == replace_with_NA(astype_str(cell))

\* the three assignments to data[dimension], cell by cell
clean_cell(cell) ==
    LET x == replace_with_NA(astype_str(cell))
    IN  IF strip(x.s) = <<>> THEN NA ELSE x

\* the frame with the column `dim` cleaned
cleaned(d, dim) == [i \in DOMAIN d |-> [d[i] EXCEPT ![dim] = clean_cell(@)]]

\* a variant that assigns to the columns of the frame it was given
clean_dimension_values_in_place(d, dim) ==
    IF dim \in {"Color", "Size"}
    THEN [caller |-> cleaned(d, dim), returned |-> cleaned(d, dim)]
    ELSE [caller |-> d, returned |-> d]

\* clean_dimension_values(data, dimension): the frame of the caller after the
\* call and the frame returned. For Color and Size the columns are assigned on
\* data.copy(); for any other dimension the frame itself is returned
clean_dimension_values_frames(d, dim) ==
    IF dim \in {"Color", "Size"}
    THEN [caller |-> d, returned |-> cleaned(d, dim)]
    ELSE [caller |-> d, returned |-> d]

(***************************************************************************)
(* The date filter: weekdays, month bounds and the valid dates             *)
(***************************************************************************)
\* date.weekday(): Monday is 0 and Sunday is 6 (ordinal 1 is a Monday)
date_weekday(n) == (n + 6) % 7

\* date.isoweekday(): Monday is 1 and Sunday is 7
date_isoweekday(n) == date_weekday(n) + 1

\* date_filters.get_next_weekday
get_next_weekday(start_date, target) ==
    LET days_ahead == target - date_weekday(start_date)
    IN  IF days_ahead <= 0
        THEN start_date + (days_ahead + 7)
        ELSE start_date + days_ahead

\* date_filters.get_month_end
get_month_end(year, month) ==
    LET next_month == IF month = 12 THEN Timestamp(year + 1, 1, 1)
                      ELSE Timestamp(year, month + 1, 1)
    IN  next_month - 1

\* date_filters.get_month_start
get_month_start(date_obj) == Timestamp(Year(date_obj), Month(date_obj), 1)

\* data['Date'].min() and data['Date'].max() of a frame with rows
DateMin(d) == CHOOSE x \in {d[i].Date : i \in DOMAIN d} :
                    \A j \in DOMAIN d : x <= d[j].Date

DateMax(d) == CHOOSE x \in {d[i].Date : i \in DOMAIN d} :
                    \A j \in DOMAIN d : x >= d[j].Date

\* the rows extend_data_with_future_record appends: copies of the last row
\* with the measures at zero, for the day after the latest date (Weekly) or
\* for every day after it up to the end of its month (Monthly)
future_records(d, vt) ==
    LET max_date == DateMax(d)
        template_row == d[Len(d)]
        month_end == get_month_end(Year(max_date), Month(max_date))
        count == IF vt = "Monthly" THEN month_end - max_date ELSE 1
    IN  [k \in 1..count |->
            [template_row EXCEPT !.Date = max_date + k,
                                 !.SalesDollars = 0, !.UnitsSold = 0]]

\* date_filters.extend_data_with_future_record
extend_data_with_future_record(d, vt) ==
    IF d = <<>> THEN d ELSE d \o future_records(d, vt)

\* the dates a loop "while current_date <= last: ...; current_date +=
\* timedelta(days=1)" goes through, in its order
DatesFrom(current_date, last) ==
    [k \in 1..(last - current_date + 1) |-> current_date + (k - 1)]

\* the first loop of the Weekly branch: the dates from min_date to max_date
\* whose weekday is 0, Monday counted from 0 with start_on_monday and Sunday
\* otherwise
week_starts(min_date, max_date, som) ==
    SelectSeq(DatesFrom(min_date, max_date),
              LAMBDA current_date :
                  (IF som THEN date_weekday(current_date)
                   ELSE date_isoweekday(current_date) % 7) = 0)

\* the second loop: the dates up to last_date that fall on the end weekday
week_ends(min_date, last_date, target_end_weekday) ==
    SelectSeq(DatesFrom(min_date, last_date),
              LAMBDA current_date : date_weekday(current_date) = target_end_weekday)

\* the next end weekday is appended unless the last end is the last date
with_next_end(valid_ends, last_date, target_end_weekday) ==
    IF valid_ends = <<>> \/ valid_ends[Len(valid_ends)] < last_date
    THEN Append(valid_ends, get_next_weekday(last_date, target_end_weekday))
    ELSE valid_ends

\* the loop of the Monthly branch: the first days of the months from
\* current_date to max_month_start
RECURSIVE month_starts(_, _)
month_starts(current_date, max_month_start) ==
    IF current_date > max_month_start THEN <<>>
    ELSE <<current_date>>
            \o month_starts(IF Month(current_date) = 12
                            THEN Timestamp(Year(current_date) + 1, 1, 1)
                            ELSE Timestamp(Year(current_date), Month(current_date) + 1, 1),
                            max_month_start)

\* valid_starts and valid_ends before the last two tests of get_valid_dates
period_bounds(min_date, max_date, vt, som) ==
    IF vt = "Weekly"
    THEN [valid_starts |-> week_starts(min_date, max_date, som),
          valid_ends |-> with_next_end(week_ends(min_date, max_date,
                                                 IF som THEN 6 ELSE 5),
                                       max_date, IF som THEN 6 ELSE 5)]
    ELSE LET starts == month_starts(get_month_start(min_date), get_month_start(max_date))
         IN  [valid_starts |-> starts,
              valid_ends |-> [i \in DOMAIN starts |->
                                get_month_end(Year(starts[i]), Month(starts[i]))]]

\* "Ensure we have at least one valid start and end date"
ensure_one(bounds, min_date, max_date) ==
    [valid_starts |-> IF bounds.valid_starts = <<>> THEN <<min_date>>
                      ELSE bounds.valid_starts,
     valid_ends |-> IF bounds.valid_ends = <<>> THEN <<max_date>>
                    ELSE bounds.valid_ends]

\* date_filters.get_valid_dates on a frame with rows: the pair of lists
get_valid_dates(d, vt, som) ==
    ensure_one(period_bounds(DateMin(extend_data_with_future_record(d, vt)),
                             DateMax(extend_data_with_future_record(d, vt)), vt, som),
               DateMin(extend_data_with_future_record(d, vt)),
               DateMax(extend_data_with_future_record(d, vt)))

(***************************************************************************)
(* get_date_range: the date range of a preset timeframe, one definition    *)
(* per implementation                                                      *)
(***************************************************************************)
\* the pair (start_date, end_date) a call returns, and None
DateRange(start_date, end_date) == <<[start_date |-> start_date, end_date |-> end_date]>>

None == <<>>

\* start_date is read before any branch has assigned it
UnboundLocalError ==
    Raise("UnboundLocalError: local variable 'start_date' referenced before assignment")

\* today.replace(day=1) - timedelta(days=1)
last_complete_month_of(now) == Timestamp(Year(now), Month(now), 1) - 1

\* the complete week (Monday to Sunday) before today
last_complete_week(now) ==
    LET days_since_sunday == date_weekday(now) + 1
        last_sunday == now - days_since_sunday
    IN  DateRange(last_sunday - 6, last_sunday)

\* the first day of the month `back` months before the month of end_date
first_of_month_back(end_date, back) ==
    LET month == Month(end_date) - back
    IN  IF month <= 0 THEN Timestamp(Year(end_date) - 1, 12 + month, 1)
        ELSE Timestamp(Year(end_date), month, 1)

\* date(end_date.year - 1, end_date.month, 1)
first_of_month_last_year(end_date) == Timestamp(Year(end_date) - 1, Month(end_date), 1)

\* start_date = max(start_date, min_date); end_date = min(end_date, max_date)
clamped(start_date, end_date, d) ==
    DateRange(Max(start_date, DateMin(d)), Min(end_date, DateMax(d)))

\* dashboard.get_date_range(timeframe, data)
get_date_range_dashboard(tf, d, now) ==
    IF tf = "Custom" THEN Return(None)
    ELSE IF tf = "1W" THEN Return(last_complete_week(now))
    ELSE LET end_date == last_complete_month_of(now)
             start_date ==
                IF tf = "1M" THEN Timestamp(Year(end_date), Month(end_date), 1)
                ELSE IF tf = "3M" THEN first_of_month_back(end_date, 2)
                ELSE IF tf = "6M" THEN first_of_month_back(end_date, 5)
                ELSE first_of_month_last_year(end_date)
         IN  Return(clamped(start_date, end_date, d))

\* dashboard_components.get_date_range(timeframe, data, view_type)
get_date_range_dashboard_components(tf, d, vt, now) ==
    IF tf = "Custom" THEN Return(None)
    ELSE IF tf = "1W" /\ vt = "Weekly" THEN Return(last_complete_week(now))
    ELSE IF tf = "1W" THEN UnboundLocalError
    ELSE LET end_date == last_complete_month_of(now)
             start_date ==
                IF tf = "1M"
                THEN IF vt = "Monthly" THEN Timestamp(Year(end_date), Month(end_date), 1)
                     ELSE end_date - 29
                ELSE IF tf = "3M" THEN first_of_month_back(end_date, 2)
                ELSE IF tf = "6M" THEN first_of_month_back(end_date, 5)
                ELSE first_of_month_last_year(end_date)
         IN  Return(clamped(start_date, end_date, d))

\* the Monthly branch of display_components.get_date_range: the start date
monthly_start(tf, current_year, current_month) ==
    IF tf = "1M" THEN Timestamp(current_year, current_month, 1)
    ELSE IF tf = "3M"
         THEN IF current_month <= 3
              THEN Timestamp(current_year - 1, current_month + 9, 1)
              ELSE Timestamp(current_year, current_month - 2, 1)
    ELSE IF tf = "6M"
         THEN IF current_month <= 6
              THEN Timestamp(current_year - 1, current_month + 6, 1)
              ELSE Timestamp(current_year, current_month - 5, 1)
    ELSE Timestamp(current_year - 1, current_month, 1)

\* the end date of the Monthly branch: the last day of the current month
monthly_end(current_year, current_month) ==
    IF current_month = 12 THEN Timestamp(current_year, 12, 31)
    ELSE Timestamp(current_year, current_month + 1, 1) - 1

\* display_components.get_date_range(timeframe, data, view_type)
get_date_range_display_components(tf, d, vt) ==
    LET last_date == DateMax(d)
        current_month == Month(last_date)
        current_year == Year(last_date)
    IN  IF tf = "Custom" THEN Return(None)
        ELSE IF tf = "1W" /\ vt = "Weekly" THEN Return(DateRange(last_date, last_date + 6))
        ELSE IF tf = "1W" THEN UnboundLocalError
        ELSE IF vt = "Monthly"
             THEN Return(clamped(monthly_start(tf, current_year, current_month),
                                 monthly_end(current_year, current_month), d))
        ELSE IF tf = "1M" THEN Return(clamped(last_date - 29, last_date, d))
        ELSE IF tf = "3M" THEN Return(clamped(last_date - 89, last_date, d))
        ELSE IF tf = "6M" THEN Return(clamped(last_date - 179, last_date, d))
        ELSE IF current_month = 2 /\ Day(last_date) = 29
             THEN Raise("ValueError: day is out of range for month")
        ELSE Return(clamped(Timestamp(current_year - 1, current_month, Day(last_date)),
                            last_date, d))

(***************************************************************************)
(* Inputs                                                                  *)
(***************************************************************************)
\* the number of rows of the data
MaxRows == 2

\* the start dates of the swept date ranges: FirstStart .. FirstStart + NumStartDays
NumStartDays == 120

\* the swept date ranges have 1 .. MaxPeriodDays + 1 days
MaxPeriodDays == 91

FirstStart == Timestamp(2023, 12, 15)

ViewTypes == {"Weekly", "Monthly", "Custom"}

Dimensions == {"Retailer", "ProductTitle"}

\* the week of 2024-06-03, and the dates of the rows: one in that week, one in
\* the week before it and one before both
WeekStart == Timestamp(2024, 6, 3)

WeekEnd == Timestamp(2024, 6, 9)

RowDates == {WeekStart, Timestamp(2024, 5, 27), Timestamp(2024, 5, 3)}

\* (Sales Dollars, Units Sold) of a row
Measures == {<<0, 0>>, <<800, 5>>, <<1100, 0>>}

Rows ==
    {[Retailer |-> r, ProductTitle |-> p, Date |-> d,
      SalesDollars |-> m[1], UnitsSold |-> m[2]] :
        r \in {"A", "B"}, p \in {"P1", "P2"}, d \in RowDates, m \in Measures}

DataSets == UNION {[1..n -> Rows] : n \in 0..MaxRows}

\* the week before the week of 2024-06-03
PreviousWeekStart == Timestamp(2024, 5, 27)

\* the sales of a retailer: for its products P1, P2, ... in turn the pair
\* (Sales Dollars of the week, Sales Dollars of the week before). Among them a
\* retailer below $1,000 in both weeks, new, lost, up, down and steady
\* retailers, products whose changes tie, and more products than are named
ProductNames == <<"P1", "P2", "P3", "P4">>

RetailerProfiles ==
    { <<>>,
      <<<<800, 700>>>>,
      <<<<1000, 500>>>>,
      <<<<5000, 4000>>>>,
      <<<<5400, 5000>>, <<400, 100>>>>,
      <<<<500, 0>>, <<1500, 1000>>>>,
      <<<<1100, 0>>>>,
      <<<<0, 1100>>>>,
      <<<<0, 6000>>>>,
      <<<<4000, 5000>>>>,
      <<<<5400, 5000>>>>,
      <<<<10996, 10000>>>>,
      <<<<2000, 1000>>, <<2000, 1000>>, <<3000, 2000>>, <<1800, 800>>>> }

\* a row of the data at $100 a unit
SalesRow(r, p, d, sales) ==
    [Retailer |-> r, ProductTitle |-> p, Date |-> d,
     SalesDollars |-> sales, UnitsSold |-> sales \div 100]

\* the rows of a retailer: one row per product and week with sales
RECURSIVE ProfileRows(_, _, _)
ProfileRows(r, profile, i) ==
    IF i > Len(profile) THEN <<>>
    ELSE (IF profile[i][1] > 0
          THEN <<SalesRow(r, ProductNames[i], WeekStart, profile[i][1])>> ELSE <<>>)
         \o (IF profile[i][2] > 0
             THEN <<SalesRow(r, ProductNames[i], PreviousWeekStart, profile[i][2])>>
             ELSE <<>>)
         \o ProfileRows(r, profile, i + 1)

\* the number of dimension keys of a summarised period
MaxKeys == 5

RetailerNames == <<"A", "B", "C", "D", "E", "F">>

\* (Sales Dollars, Units Sold) of the single row of a key
KeyMeasures == {<<0, 0>>, <<1996, 0>>, <<1996, 3>>, <<2016, 7>>}

\* the number of rows with Color and Size cells
MaxCleanRows == 2

\* the cells of a Color or Size column: None, the values of the replace list,
\* strings of whitespace only, the value 'N/A' itself, and values that are
\* close to a listed one without being it
CellValues ==
    { PyNone,
      Str(<<>>), Str(<<" ">>), Str(<<" ", " ">>), Str(<<"\t">>),
      Str(<<"0">>), Str(<<"0", ".", "0">>), Str(<<"0", "0">>),
      Str(<<"n", "a", "n">>), Str(<<"N", "a", "N">>),
      Str(<<"N", "o", "n", "e">>), Str(<<"n", "o", "n", "e">>),
      Str(<<"n", "u", "l", "l">>),
      Str(<<"N", "/", "A">>), Str(<<"R", "e", "d">>), Str(<<" ", "M", " ">>) }

\* the columns handed to clean_dimension_values
CleanedColumns == {"Color", "Size", "Retailer"}

\* row i of a frame with Color and Size: the column `varied` holds the cell,
\* the other one the size M; the first row is of the week of 2024-06-03, the
\* others of the week before
CleanRow(i, varied, cell) ==
    [Retailer |-> RetailerNames[i], ProductTitle |-> "P1",
     Date |-> IF i = 1 THEN WeekStart ELSE PreviousWeekStart,
     SalesDollars |-> 1100, UnitsSold |-> 11,
     Color |-> IF varied = "Color" THEN cell ELSE Str(<<"M">>),
     Size |-> IF varied = "Size" THEN cell ELSE Str(<<"M">>)]

\* the dates of the rows handed to the date filter: FirstDataDate ..
\* FirstDataDate + NumDataDays, over the turn of the year 2023/2024
NumDataDays == 23

FirstDataDate == Timestamp(2023, 12, 20)

DataDates == FirstDataDate..(FirstDataDate + NumDataDays)

\* the number of rows handed to the date filter
MaxDateRows == 2

\* the timeframes of the selectbox "Time Range"
Timeframes == {"1W", "1M", "3M", "6M", "1Y", "Custom"}

\* the months of the sweep of get_date_range: November 2023 and the
\* NumMonths months after it; of each its 15th and its last day
NumMonths == 14

MonthOfSweep(k) ==
    LET idx == 2023 * 12 + 10 + k
    IN  [year |-> idx \div 12, month |-> (idx % 12) + 1]

MidMonths == {Timestamp(MonthOfSweep(k).year, MonthOfSweep(k).month, 15) : k \in 0..NumMonths}

MonthEnds == {get_month_end(MonthOfSweep(k).year, MonthOfSweep(k).month) : k \in 0..NumMonths}

\* the date ranges with a row on each of their days: they start on
\* 2024-01-29 or one of the NumRangeStarts days after it and have 1 ..
\* MaxRangeDays + 1 days, so that single days, 7-day weeks, the whole of
\* February 2024 and ranges over the end of a month are among them
NumRangeStarts == 9

MaxRangeDays == 29

FirstRangeStart == Timestamp(2024, 1, 29)

\* nothing has been called
NotCalled ==
    /\ called = "none"
    /\ previous_period = <<>>
    /\ output = NoOutput

(***************************************************************************)
(* dashboard.main: the page                                                *)
(***************************************************************************)
\* what a loader returns, (data, error): loaded stands for a frame in place
\* of None, and the empty string for the error None
LoaderResult(loaded, error) == [loaded |-> loaded, error |-> error]

\* load_data_from_gsheet(sheet_id, sheet_range) for a sheet that loads, a
\* sheet without values and a sheet without a required column
load_data_from_gsheet(sheet) ==
    IF sheet = "loaded" THEN LoaderResult(TRUE, "")
    ELSE IF sheet = "no_values"
         THEN LoaderResult(FALSE, "No data found in the specified sheet range")
    ELSE LoaderResult(FALSE, "Missing required columns")

\* load_context_data(sheet_id) for a sheet that loads and a missing sheet
load_context_data(sheet) ==
    IF sheet = "loaded" THEN LoaderResult(TRUE, "")
    ELSE LoaderResult(FALSE, "Context sheet not found. Please ensure 'data_context' sheet exists.")

\* load_returns_data(sheet_id) for a sheet that loads, a missing sheet and a
\* sheet without a required column
load_returns_data(sheet) ==
    IF sheet = "loaded" THEN LoaderResult(TRUE, "")
    ELSE IF sheet = "not_found"
         THEN LoaderResult(FALSE, "Returns sheet not found. Please ensure 'returns' sheet exists.")
    ELSE LoaderResult(FALSE, "Missing required columns in returns sheet")

\* something rendered in a tab of the page, or above the tabs ("page"), with
\* the date range handed to it (None where it takes none)
Element(tab, element, text, range) ==
    [tab |-> tab, element |-> element, text |-> text, date_range |-> range]

\* display_filters(data): the date range of the selected timeframe; for
\* Custom the date input, left at its value (min date, max date)
display_filters(d, tf, now) ==
    IF tf = "Custom" THEN DateRange(DateMin(d), DateMax(d))
    ELSE get_date_range_dashboard(tf, d, now).value

\* with tabs[0]: the context section, the filters, the overview, the two
\* summaries, the charts of size and color and the pivot
sales_tab(context, range) ==
    (IF context.loaded THEN <<Element("sales", "context_section", "", None)>>
     ELSE IF context.error # ""
          THEN <<Element("sales", "info", "Context data not available.", None)>>
     ELSE <<>>)
    \o <<Element("sales", "filters", "", range),
         Element("sales", "sales_overview", "", range),
         Element("sales", "retailer_summary", "", range),
         Element("sales", "product_summary", "", range),
         Element("sales", "color_and_size_analysis", "", range),
         Element("sales", "pivot_analysis", "", range)>>

\* with tabs[1]: the error of the returns sheet, the warning, or the analysis
returns_tab(returns, range) ==
    IF returns.error # ""
    THEN <<Element("returns", "error", returns.error, None)>>
    ELSE IF ~returns.loaded
         THEN <<Element("returns", "warning", "No returns data available.", None)>>
    ELSE <<Element("returns", "returns_analysis", "", range)>>

\* main(): what the page shows, from the three sheets that were loaded
main(sh, d, tf, now) ==
    LET sales == load_data_from_gsheet(sh.sales)
        context == load_context_data(sh.context)
        returns == load_returns_data(sh.returns)
    IN  IF sales.error # ""
        THEN <<Element("page", "error", sales.error, None)>>
        ELSE IF ~sales.loaded THEN <<>>
        ELSE sales_tab(context, display_filters(d, tf, now))
                \o returns_tab(returns, display_filters(d, tf, now))

\* the three sheets of the spreadsheet load
LoadedSheets == [sales |-> "loaded", context |-> "loaded", returns |-> "loaded"]

\* the states of the sheets: each of them loads or fails in a way of its loader
SheetStates ==
    [sales : {"loaded", "no_values", "missing_columns"},
     context : {"loaded", "not_found"},
     returns : {"loaded", "not_found", "missing_columns"}]

\* the page as it is when only the comparison is looked at: a custom date
\* range, weeks that start on Monday, both sheets loaded, the day after the
\* week of 2024-06-03
DefaultPage ==
    /\ timeframe = "Custom"
    /\ today = WeekEnd + 1
    /\ start_on_monday = TRUE
    /\ weekday = 0
    /\ sheets = LoadedSheets

\* the same with Retailer as the column handed to clean_dimension_values
DefaultSelections ==
    /\ column = "Retailer"
    /\ DefaultPage

\* rows of the week of 2024-06-03 and of the week before, under every dimension
Init ==
    /\ data \in DataSets
    /\ dimension \in Dimensions
    /\ date_range = <<WeekStart, WeekEnd>>
    /\ view_type = "Weekly"
    /\ DefaultSelections
    /\ NotCalled

\* every date range of the sweep under every view type, without rows
InitPeriod ==
    /\ data = <<>>
    /\ dimension = "Retailer"
    /\ \E s \in FirstStart..(FirstStart + NumStartDays), n \in 0..MaxPeriodDays :
            date_range = <<s, s + n>>
    /\ view_type \in ViewTypes
    /\ DefaultSelections
    /\ NotCalled

\* three retailers with their products in the week of 2024-06-03 and in the
\* week before
InitProfiles ==
    /\ \E pa, pb, pc \in RetailerProfiles :
            data = ProfileRows("A", pa, 1) \o ProfileRows("B", pb, 1)
                        \o ProfileRows("C", pc, 1)
    /\ dimension = "Retailer"
    /\ date_range = <<WeekStart, WeekEnd>>
    /\ view_type = "Weekly"
    /\ DefaultSelections
    /\ NotCalled

\* up to MaxKeys retailers with one row each in the week of 2024-06-03
InitKeys ==
    /\ \E n \in 0..MaxKeys : \E m \in [1..n -> KeyMeasures] :
            data = [i \in 1..n |->
                        [Retailer |-> RetailerNames[i], ProductTitle |-> "P1",
                         Date |-> WeekStart,
                         SalesDollars |-> m[i][1], UnitsSold |-> m[i][2]]]
    /\ dimension = "Retailer"
    /\ date_range = <<WeekStart, WeekEnd>>
    /\ view_type = "Weekly"
    /\ DefaultSelections
    /\ NotCalled

\* up to MaxCleanRows rows with Color and Size cells, and every column that
\* is handed to clean_dimension_values
InitColors ==
    /\ \E n \in 0..MaxCleanRows, varied \in {"Color", "Size"} :
          \E cells \in [1..n -> CellValues] :
              data = [i \in 1..n |-> CleanRow(i, varied, cells[i])]
    /\ dimension = "Retailer"
    /\ date_range = <<WeekStart, WeekEnd>>
    /\ view_type = "Weekly"
    /\ column \in CleanedColumns
    /\ DefaultPage
    /\ NotCalled

\* a start date on every day of DataDates with every target weekday
InitWeekdays ==
    /\ \E s \in DataDates :
          /\ date_range = <<s, s>>
          /\ data = <<SalesRow("A", "P1", s, 1100)>>
    /\ weekday \in 0..6
    /\ view_type \in {"Weekly", "Monthly"}
    /\ start_on_monday \in BOOLEAN
    /\ dimension = "Retailer"
    /\ column = "Retailer"
    /\ timeframe = "1M"
    /\ today = FirstDataDate + NumDataDays + 1
    /\ sheets = LoadedSheets
    /\ NotCalled

\* 1 .. MaxDateRows rows on days of DataDates, in every view type and with
\* weeks that start on Monday or on Sunday
InitValidDates ==
    /\ \E n \in 1..MaxDateRows : \E dates \in [1..n -> DataDates] :
          /\ data = [i \in 1..n |-> SalesRow("A", "P1", dates[i], 1100)]
          /\ date_range = <<dates[1], dates[1]>>
    /\ view_type \in ViewTypes
    /\ start_on_monday \in BOOLEAN
    /\ weekday = 6
    /\ dimension = "Retailer"
    /\ column = "Retailer"
    /\ timeframe = "1M"
    /\ today = FirstDataDate + NumDataDays + 1
    /\ sheets = LoadedSheets
    /\ NotCalled

\* every timeframe in every view type, today in the middle of a month of the
\* sweep, the latest row in the middle or on the last day of a month of the
\* sweep, the earliest row on the same day or on 2022-01-01
InitRanges ==
    /\ timeframe \in Timeframes
    /\ view_type \in ViewTypes
    /\ today \in MidMonths
    /\ \E max_date \in MidMonths \cup MonthEnds :
       \E min_date \in {max_date, Timestamp(2022, 1, 1)} :
          /\ data = <<SalesRow("A", "P1", min_date, 1100),
                      SalesRow("A", "P1", max_date, 1100)>>
          /\ date_range = <<min_date, max_date>>
    /\ start_on_monday = TRUE
    /\ weekday = 6
    /\ dimension = "Retailer"
    /\ column = "Retailer"
    /\ sheets = LoadedSheets
    /\ NotCalled

\* a row on the day before the date range and on every day of it, in every
\* view type
InitDailyRows ==
    /\ \E s \in FirstRangeStart..(FirstRangeStart + NumRangeStarts), n \in 0..MaxRangeDays :
          /\ date_range = <<s, s + n>>
          /\ data = [k \in 1..(n + 2) |-> SalesRow("A", "P1", s + (k - 2), 1100)]
    /\ view_type \in ViewTypes
    /\ dimension = "Retailer"
    /\ DefaultSelections
    /\ NotCalled

\* every state of the three sheets and every timeframe, today in the middle
\* of a month of the sweep, rows from 2022-01-01 to the middle of the month of
\* today or of the month before
InitPage ==
    /\ sheets \in SheetStates
    /\ timeframe \in Timeframes
    /\ today \in MidMonths
    /\ \E max_date \in {today, today - 31} :
          /\ data = <<SalesRow("A", "P1", Timestamp(2022, 1, 1), 1100),
                      SalesRow("A", "P1", max_date, 1100)>>
          /\ date_range = <<Timestamp(2022, 1, 1), max_date>>
    /\ view_type = "Daily"
    /\ start_on_monday = TRUE
    /\ weekday = 0
    /\ dimension = "Retailer"
    /\ column = "Retailer"
    /\ NotCalled

(***************************************************************************)
(* Operations                                                              *)
(***************************************************************************)
sales_analysis_create_sales_summary_with_comparison ==
    LET start_date == date_range[1]
        end_date == date_range[2]
        prev == previous_period_sales_analysis(start_date, end_date, view_type)
    IN  /\ called = "none"
        /\ called' = "sales_analysis.create_sales_summary_with_comparison"
        /\ previous_period' = prev
        /\ output' = Return(summary_with_comparison(data, dimension, start_date, end_date, prev))
        /\ UNCHANGED inputs

dashboard_create_sales_summary_with_comparison ==
    LET start_date == date_range[1]
        end_date == date_range[2]
        prev == previous_period_dashboard(start_date, end_date)
    IN  /\ called = "none"
        /\ called' = "dashboard.create_sales_summary_with_comparison"
        /\ previous_period' = prev
        /\ output' = Return(summary_with_comparison(data, dimension, start_date, end_date, prev))
        /\ UNCHANGED inputs

dashboard_components_create_sales_summary_with_comparison ==
    LET start_date == date_range[1]
        end_date == date_range[2]
        prev == previous_period_dashboard_components(start_date, end_date, view_type)
    IN  /\ called = "none"
        /\ called' = "dashboard_components.create_sales_summary_with_comparison"
        /\ previous_period' = prev
        /\ output' = Return(summary_with_comparison(data, dimension, start_date, end_date, prev))
        /\ UNCHANGED inputs

\* the orders in which a set of product names can be iterated: the order of a
\* set of strings follows their hashes, which differ from process to process
ProductOrders(S) ==
    {o \in [1..Cardinality(S) -> S] : \A i, j \in DOMAIN o : i # j => o[i] # o[j]}

analyze_performance ==
    \E order \in ProductOrders(GroupKeys(data, "ProductTitle")) :
        /\ called = "none"
        /\ called' = "summary_generator.analyze_performance"
        /\ previous_period' =
                previous_period_summary_generator(date_range[1], date_range[2], view_type)
        /\ output' = analyze_performance_result(data, date_range[1], date_range[2],
                                                previous_period', order)
        /\ UNCHANGED inputs

\* the metric chosen in the pivot section
Metrics == {"SalesDollars", "UnitsSold"}

\* the pivot section with its filters at "All" and the dimension as the only
\* row dimension
sales_analysis_create_pivot_analysis_with_comparison ==
    \E metric \in Metrics :
        LET start_date == date_range[1]
            end_date == date_range[2]
            prev == previous_period_sales_analysis(start_date, end_date, view_type)
        IN  /\ called = "none"
            /\ called' = "sales_analysis.create_pivot_analysis_with_comparison"
            /\ previous_period' = prev
            /\ output' = Return(pivot_with_comparison(data, dimension, metric,
                                                      start_date, end_date, prev, 1))
            /\ UNCHANGED inputs

dashboard_components_create_pivot_analysis_with_comparison ==
    \E metric \in Metrics :
        LET start_date == date_range[1]
            end_date == date_range[2]
            prev == previous_period_pivot_dashboard_components(start_date, end_date)
        IN  /\ called = "none"
            /\ called' = "dashboard_components.create_pivot_analysis_with_comparison"
            /\ previous_period' = prev
            /\ output' = Return(pivot_with_comparison(data, dimension, metric,
                                                      start_date, end_date, prev, 2))
            /\ UNCHANGED inputs

sales_visualizations_create_pivot_analysis_with_comparison ==
    \E metric \in Metrics :
        LET start_date == date_range[1]
            end_date == date_range[2]
            prev == previous_period_pivot_sales_visualizations(start_date, end_date)
        IN  /\ called = "none"
            /\ called' = "sales_visualizations.create_pivot_analysis_with_comparison"
            /\ previous_period' = prev
            /\ output' = Return(pivot_with_comparison(data, dimension, metric,
                                                      start_date, end_date, prev, 1))
            /\ UNCHANGED inputs

sales_visualizations_clean_dimension_values ==
    /\ called = "none"
    /\ called' = "sales_visualizations.clean_dimension_values"
    /\ previous_period' = <<>>
    /\ data' = clean_dimension_values_frames(data, column).caller
    /\ output' = Return(clean_dimension_values_frames(data, column).returned)
    /\ UNCHANGED selections

\* the page is rendered anew on every interaction: the values computed for
\* the last rendering are dropped
rerun ==
    /\ called # "none"
    /\ called' = "none"
    /\ previous_period' = <<>>
    /\ output' = NoOutput
    /\ UNCHANGED inputs

Next ==
    \/ rerun
    \/ analyze_performance
    \/ sales_analysis_create_pivot_analysis_with_comparison
    \/ dashboard_components_create_pivot_analysis_with_comparison
    \/ sales_visualizations_create_pivot_analysis_with_comparison
    \/ sales_analysis_create_sales_summary_with_comparison
    \/ dashboard_create_sales_summary_with_comparison
    \/ dashboard_components_create_sales_summary_with_comparison
    \/ sales_visualizations_clean_dimension_values

(***************************************************************************)
(* Operations of the date filter                                           *)
(***************************************************************************)
\* get_next_weekday(start_date, weekday) with the start of the date range
date_filters_get_next_weekday ==
    /\ called = "none"
    /\ called' = "date_filters.get_next_weekday"
    /\ previous_period' = <<>>
    /\ output' = Return(<<[date |-> get_next_weekday(date_range[1], weekday)]>>)
    /\ UNCHANGED inputs

date_filters_get_valid_dates ==
    /\ called = "none"
    /\ called' = "date_filters.get_valid_dates"
    /\ previous_period' = <<>>
    /\ output' = Return(<<get_valid_dates(data, view_type, start_on_monday)>>)
    /\ UNCHANGED inputs

dashboard_get_date_range ==
    /\ called = "none"
    /\ called' = "dashboard.get_date_range"
    /\ previous_period' = <<>>
    /\ output' = get_date_range_dashboard(timeframe, data, today)
    /\ UNCHANGED inputs

dashboard_components_get_date_range ==
    /\ called = "none"
    /\ called' = "dashboard_components.get_date_range"
    /\ previous_period' = <<>>
    /\ output' = get_date_range_dashboard_components(timeframe, data, view_type, today)
    /\ UNCHANGED inputs

display_components_get_date_range ==
    /\ called = "none"
    /\ called' = "display_components.get_date_range"
    /\ previous_period' = <<>>
    /\ output' = get_date_range_display_components(timeframe, data, view_type)
    /\ UNCHANGED inputs

NextDates ==
    \/ rerun
    \/ date_filters_get_next_weekday
    \/ date_filters_get_valid_dates
    \/ dashboard_get_date_range
    \/ dashboard_components_get_date_range
    \/ display_components_get_date_range

(***************************************************************************)
(* The run of the page                                                     *)
(***************************************************************************)
dashboard_main ==
    /\ called = "none"
    /\ called' = "dashboard.main"
    /\ previous_period' = <<>>
    /\ output' = Return(main(sheets, data, timeframe, today))
    /\ UNCHANGED inputs

NextPage ==
    \/ rerun
    \/ dashboard_main

Spec == Init /\ [][Next]_vars

SpecPeriod == InitPeriod /\ [][Next]_vars

SpecProfiles == InitProfiles /\ [][Next]_vars

SpecKeys == InitKeys /\ [][Next]_vars

SpecColors == InitColors /\ [][Next]_vars

SpecDailyRows == InitDailyRows /\ [][Next]_vars

SpecPage == InitPage /\ [][NextPage]_vars

SpecWeekdays == InitWeekdays /\ [][NextDates]_vars

SpecValidDates == InitValidDates /\ [][NextDates]_vars

SpecRanges == InitRanges /\ [][NextDates]_vars

(***************************************************************************)
(* Properties of the previous period                                       *)
(***************************************************************************)
\* the implementations that take the view type as a parameter
ViewTypeCalls ==
    {"sales_analysis.create_sales_summary_with_comparison",
     "sales_analysis.create_pivot_analysis_with_comparison",
     "summary_generator.analyze_performance",
     "dashboard_components.create_sales_summary_with_comparison"}

\* the index of the calendar month of a date
MonthIndex(n) == Year(n) * 12 + Month(n)

IsMonthStart(n) == Day(n) = 1

IsMonthEnd(n) == Day(n) = DaysInMonth(Year(n), Month(n))

\* C1: in every implementation, for every range [s,e] with s <= e and every
\* view type, the previous period [s2,e2] ends before s and has as many days
\* as [s,e] (Weekly, Custom) or spans as many calendar months (Monthly).
C1_PreviousPeriodSameShape ==
    called # "none" =>
        /\ previous_period[2] < date_range[1]
        /\ IF view_type = "Monthly"
           THEN MonthIndex(previous_period[2]) - MonthIndex(previous_period[1])
                    = MonthIndex(date_range[2]) - MonthIndex(date_range[1])
           ELSE previous_period[2] - previous_period[1] = date_range[2] - date_range[1]

\* C2 (as stated): for every range and every view type, Monthly included, the
\* previous period ends on the day before the current period starts.
C2_PreviousEndsDayBeforeStart ==
    called \in ViewTypeCalls => previous_period[2] + 1 = date_range[1]

\* C2 (amended): in Weekly and Custom view the previous period ends on the day
\* before the current period starts; in Monthly view it ends before the
\* current period starts, possibly leaving a gap of days.
C2_AdjacentUnlessMonthly ==
    called \in ViewTypeCalls =>
        IF view_type = "Monthly"
        THEN previous_period[2] < date_range[1]
        ELSE previous_period[2] + 1 = date_range[1]

C2_Witness ==
    /\ called = "dashboard_components.create_sales_summary_with_comparison"
    /\ view_type = "Custom"
    /\ date_range = <<Timestamp(2024, 1, 1), Timestamp(2024, 1, 10)>>
    /\ previous_period = <<Timestamp(2023, 12, 22), Timestamp(2023, 12, 31)>>

\* C3: in Monthly view a range of whole months (first day of a month to last
\* day of a month) has as its previous period the whole months that lie
\* monthsSpan months earlier: first day of a month to last day of a month.
C3_MonthlyWholeMonths ==
    (/\ called \in ViewTypeCalls
     /\ view_type = "Monthly"
     /\ IsMonthStart(date_range[1])
     /\ IsMonthEnd(date_range[2])) =>
        LET monthsSpan == MonthIndex(date_range[2]) - MonthIndex(date_range[1]) + 1
        IN  /\ IsMonthStart(previous_period[1])
            /\ IsMonthEnd(previous_period[2])
            /\ MonthIndex(previous_period[1]) = MonthIndex(date_range[1]) - monthsSpan
            /\ MonthIndex(previous_period[2]) = MonthIndex(date_range[2]) - monthsSpan

\* C4: in Weekly or Custom view a range with (end - start).days = 6 has the
\* previous period [start - 7 days, end - 7 days], in the implementations
\* with the 7-day special case and in the one with the period_length + 1 rule.
C4_SevenDayWeekShiftsBySeven ==
    (/\ called \in ViewTypeCalls
     /\ view_type # "Monthly"
     /\ date_range[2] - date_range[1] = 6) =>
        previous_period = <<date_range[1] - 7, date_range[2] - 7>>

C4_Witness ==
    /\ called = "summary_generator.analyze_performance"
    /\ view_type = "Weekly"
    /\ date_range = <<Timestamp(2024, 1, 1), Timestamp(2024, 1, 7)>>
    /\ previous_period = <<Timestamp(2023, 12, 25), Timestamp(2023, 12, 31)>>

\* C5: a single-day range has as its previous period the single day before it
\* in Weekly or Custom view, and in Monthly view the single day of the month
\* before it with the same day of month (the last day of that month where the
\* month is shorter).
C5_SingleDayRange ==
    (/\ called \in ViewTypeCalls
     /\ date_range[1] = date_range[2]) =>
        /\ previous_period[1] = previous_period[2]
        /\ IF view_type = "Monthly"
           THEN /\ MonthIndex(previous_period[1]) = MonthIndex(date_range[1]) - 1
                /\ Day(previous_period[1]) =
                        Min(Day(date_range[1]),
                            DaysInMonth(Year(previous_period[1]), Month(previous_period[1])))
           ELSE previous_period[1] = date_range[1] - 1

C5_Witness ==
    /\ called = "sales_analysis.create_sales_summary_with_comparison"
    /\ view_type = "Monthly"
    /\ date_range = <<Timestamp(2024, 3, 31), Timestamp(2024, 3, 31)>>
    /\ previous_period = <<Timestamp(2024, 2, 29), Timestamp(2024, 2, 29)>>

(***************************************************************************)
(* Properties of the narrative and of the comparison summary               *)
(***************************************************************************)
SummaryCalls ==
    {"sales_analysis.create_sales_summary_with_comparison",
     "dashboard.create_sales_summary_with_comparison",
     "dashboard_components.create_sales_summary_with_comparison"}

\* the sum of a measure over the rows of a key in the current period and in
\* the previous period of the last call
CurrentTotal(dim, k, col) ==
    GroupSum(FilterByDate(data, date_range[1], date_range[2]), dim, k, col)

PreviousTotal(dim, k, col) ==
    GroupSum(FilterByDate(data, previous_period[1], previous_period[2]), dim, k, col)

CurrentKeys(dim) == GroupKeys(FilterByDate(data, date_range[1], date_range[2]), dim)

PreviousKeys(dim) ==
    GroupKeys(FilterByDate(data, previous_period[1], previous_period[2]), dim)

\* C6: analyze_performance never ends in an error: it returns a text for every
\* row-set, date range and view type.
C6_AnalyzePerformanceReturns ==
    called = "summary_generator.analyze_performance" => output.status = "return"

\* C7: analyze_performance returns the 'minimum sales threshold' message
\* exactly when no retailer reaches $1,000 in either period, and the 'no
\* significant changes' message when a retailer passes the floor but none is
\* new, lost or changed by at least 10%.
C7_FixedMessages ==
    called = "summary_generator.analyze_performance" =>
        LET retailers == CurrentKeys("Retailer") \cup PreviousKeys("Retailer")
            Cur(r) == CurrentTotal("Retailer", r, "SalesDollars")
            Prev(r) == PreviousTotal("Retailer", r, "SalesDollars")
            passing == {r \in retailers : Cur(r) >= 1000 \/ Prev(r) >= 1000}
            Quiet(r) == /\ Cur(r) > 0
                        /\ Prev(r) > 0
                        /\ Abs(Cur(r) - Prev(r)) * 10 < Prev(r)
        IN  /\ (output = Return(NoThresholdMessage)) <=> (passing = {})
            /\ (passing # {} /\ \A r \in passing : Quiet(r)) =>
                    output = Return(NoChangesMessage)

\* C8: the result of create_sales_summary_with_comparison is a full outer join
\* on the dimension key: a key with rows in the previous period only is in the
\* result with zero current revenue and units, and a key with rows in the
\* current period only is in the result with its current measures.
C8_FullOuterJoin ==
    called \in SummaryCalls =>
        /\ \A k \in PreviousKeys(dimension) \ CurrentKeys(dimension) :
                \E i \in DOMAIN output.value :
                    /\ output.value[i].key = k
                    /\ output.value[i].SalesDollars = 0
                    /\ output.value[i].UnitsSold = 0
        /\ \A k \in CurrentKeys(dimension) \ PreviousKeys(dimension) :
                \E i \in DOMAIN output.value :
                    /\ output.value[i].key = k
                    /\ output.value[i].SalesDollars = CurrentTotal(dimension, k, "SalesDollars")
                    /\ output.value[i].UnitsSold = CurrentTotal(dimension, k, "UnitsSold")

C10_NullWhenBothZero ==
    called \in SummaryCalls =>
        \A i \in DOMAIN output.value :
            LET row == output.value[i]
                prev == PreviousTotal(dimension, row.key, "SalesDollars")
            IN  /\ row.RevenueChangePct = New => (row.SalesDollars > 0 /\ prev = 0)
                /\ (row.SalesDollars = 0 /\ prev = 0) => row.RevenueChangePct = NaN

(***************************************************************************)
(* Properties of the percentages                                           *)
(***************************************************************************)
\* x is num / den * 100 rounded to one decimal, in tenths of a percent: it is
\* within half a tenth of the exact value (den > 0)
IsPctOf(x, num, den) == Abs(x * den - num * 1000) * 2 <= den

PivotCalls ==
    {"sales_analysis.create_pivot_analysis_with_comparison",
     "dashboard_components.create_pivot_analysis_with_comparison",
     "sales_visualizations.create_pivot_analysis_with_comparison"}

\* C12: in the pivot comparison every row's '% of Total' is its current-period
\* measure divided by the current-period grand total of the un-grouped rows,
\* times 100, to one decimal; the Total row shows 100.
C12_PctOfGrandTotal ==
    called \in PivotCalls =>
        \E metric \in Metrics :
            LET grand_total ==
                    ColumnSum(FilterByDate(data, date_range[1], date_range[2]), metric)
            IN  /\ \A i \in DOMAIN output.value :
                        /\ output.value[i].key # "Total" =>
                                output.value[i].Current =
                                    CurrentTotal(dimension, output.value[i].key, metric)
                        /\ output.value[i].key = "Total" =>
                                output.value[i].Current = grand_total
                /\ grand_total > 0 =>
                        \A i \in DOMAIN output.value :
                            /\ output.value[i].PctOfTotal.tag = "num"
                            /\ IsPctOf(output.value[i].PctOfTotal.v,
                                       output.value[i].Current, grand_total)
                            /\ output.value[i].key = "Total" =>
                                    output.value[i].PctOfTotal = Num(1000)

\* the rows of the current period, and the sum of a column of cells with the
\* nulls skipped
CurrentRows == FilterByDate(data, date_range[1], date_range[2])

RECURSIVE CellSum(_, _)
CellSum(rows, col) ==
    IF rows = <<>> THEN 0
    ELSE (IF Head(rows)[col].tag = "num" THEN Head(rows)[col].v ELSE 0)
            + CellSum(Tail(rows), col)

\* C13 (as stated): for every non-empty period row-set the Revenue % values
\* of all dimension keys sum to 100.0 within 0.1, whatever the number of keys
\* and the distribution of the revenue.
C13_RevenuePctSumsTo100 ==
    (called \in SummaryCalls /\ CurrentRows # <<>>) =>
        /\ \A i \in DOMAIN output.value : output.value[i].RevenuePct.tag = "num"
        /\ Abs(CellSum(output.value, "RevenuePct") - 1000) <= 1

\* C13 (amended): for every non-empty period row-set with a total revenue
\* above zero the Revenue % values sum to 100.0 within 0.05 per dimension
\* key; with a total revenue of zero every Revenue % is null.
C13_RevenuePctSumPerKey ==
    (called \in SummaryCalls /\ CurrentRows # <<>>) =>
        IF ColumnSum(CurrentRows, "SalesDollars") > 0
        THEN /\ \A i \in DOMAIN output.value : output.value[i].RevenuePct.tag = "num"
             /\ Abs(CellSum(output.value, "RevenuePct") - 1000) * 2
                    <= Len(output.value)
        ELSE \A i \in DOMAIN output.value : output.value[i].RevenuePct = NaN

\* five keys with 19.96%, 19.96%, 19.96%, 19.96% and 20.16% of the revenue:
\* 20.0 four times and 20.2
C13_Witness ==
    /\ called = "sales_analysis.create_sales_summary_with_comparison"
    /\ Len(output.value) = 5
    /\ ColumnSum(CurrentRows, "SalesDollars") = 10000
    /\ CellSum(output.value, "RevenuePct") = 1002

\* C14 (as stated): a key whose summed units are 0 has a null Average Price,
\* and a key with units > 0 has Average Price = revenue / units.
C14_AveragePriceIsQuotient ==
    called \in SummaryCalls =>
        \A i \in DOMAIN output.value :
            LET row == output.value[i]
                revenue == CurrentTotal(dimension, row.key, "SalesDollars")
                units == CurrentTotal(dimension, row.key, "UnitsSold")
            IN  /\ units = 0 => row.AveragePrice = NaN
                /\ units > 0 =>
                        /\ row.AveragePrice.tag = "num"
                        /\ row.AveragePrice.v * units = revenue * 100

\* C14 (amended): a key whose summed units are 0 has a null Average Price,
\* and a key with units > 0 has Average Price = revenue / units rounded to
\* two decimals (AveragePrice.v is in cents).
C14_AveragePriceRounded ==
    called \in SummaryCalls =>
        \A i \in DOMAIN output.value :
            LET row == output.value[i]
                revenue == CurrentTotal(dimension, row.key, "SalesDollars")
                units == CurrentTotal(dimension, row.key, "UnitsSold")
            IN  /\ units = 0 => row.AveragePrice = NaN
                /\ units > 0 =>
                        /\ row.AveragePrice.tag = "num"
                        /\ Abs(row.AveragePrice.v * units - revenue * 100) * 2 <= units

\* a key with 1996 dollars and no units next to a key with 1996 dollars and
\* 3 units, priced at 665.33
C14_Witness ==
    /\ called = "sales_analysis.create_sales_summary_with_comparison"
    /\ \E i, j \in DOMAIN output.value :
            /\ output.value[i].SalesDollars = 1996
            /\ output.value[i].UnitsSold = 0
            /\ output.value[i].AveragePrice = NaN
            /\ output.value[j].SalesDollars = 1996
            /\ output.value[j].UnitsSold = 3
            /\ output.value[j].AveragePrice = Num(66533)

\* the rows of the previous period of the last call
PreviousRows == FilterByDate(data, previous_period[1], previous_period[2])

EntryKinds == {"up", "new", "down", "lost"}

\* the lines of the returned text that name a retailer
EntryLines == SelectSeq(output.value, LAMBDA l : l.kind \in EntryKinds)

Mentioned == {EntryLines[i].retailer : i \in DOMAIN EntryLines}

NarrativeReturned ==
    called = "summary_generator.analyze_performance" /\ output.status = "return"

\* C16: a retailer is named in the narrative only if its revenue is at least
\* $1,000 in the current or in the previous period: with retailers at 800/700
\* and 5000/4000 only the second one is named.
C16_FloorOfThousand ==
    NarrativeReturned =>
        \A r \in Mentioned :
            \/ CurrentTotal("Retailer", r, "SalesDollars") >= 1000
            \/ PreviousTotal("Retailer", r, "SalesDollars") >= 1000

C16_Witness ==
    /\ NarrativeReturned
    /\ data = ProfileRows("A", <<<<800, 700>>>>, 1)
                \o ProfileRows("B", <<<<5000, 4000>>>>, 1)
    /\ Mentioned = {"B"}
    /\ Len(output.value) = 2
    /\ output.value[2].kind = "up"
    /\ output.value[2].pct = 250

\* the retailers of either period with at least $1,000 in one of them
PassingRetailers ==
    {r \in CurrentKeys("Retailer") \cup PreviousKeys("Retailer") :
        \/ CurrentTotal("Retailer", r, "SalesDollars") >= 1000
        \/ PreviousTotal("Retailer", r, "SalesDollars") >= 1000}

\* the class the claim gives a retailer with current revenue c and previous
\* revenue p; the change % is the one of the report, rounded to one decimal
ClassOf(c, p) ==
    IF p = 0 /\ c > 0 THEN "new"
    ELSE IF c = 0 /\ p > 0 THEN "lost"
    ELSE IF c > 0 /\ p > 0 /\ RoundHalfEven((c - p) * 1000, p) >= 100 THEN "up"
    ELSE IF c > 0 /\ p > 0 /\ RoundHalfEven((c - p) * 1000, p) <= -100 THEN "down"
    ELSE "omitted"

\* C17: every retailer that passes the floor is reported as new (previous = 0,
\* current > 0), lost (current = 0, previous > 0), increase (both > 0 and
\* change % >= 10) or decrease (both > 0 and change % <= -10), on one line; a
\* retailer with both > 0 and |change %| < 10 is not in the report.
C17_Classification ==
    NarrativeReturned =>
        \A r \in PassingRetailers :
            LET class == ClassOf(CurrentTotal("Retailer", r, "SalesDollars"),
                                 PreviousTotal("Retailer", r, "SalesDollars"))
                lines == {i \in DOMAIN EntryLines : EntryLines[i].retailer = r}
            IN  IF class = "omitted" THEN lines = {}
                ELSE /\ Cardinality(lines) = 1
                     /\ \A i \in lines : EntryLines[i].kind = class

\* A up by 25%, B up by 8% only, C lost
C17_Witness ==
    /\ NarrativeReturned
    /\ data = ProfileRows("A", <<<<5000, 4000>>>>, 1)
                \o ProfileRows("B", <<<<5400, 5000>>>>, 1)
                \o ProfileRows("C", <<<<0, 1100>>>>, 1)
    /\ PassingRetailers = {"A", "B", "C"}
    /\ Len(EntryLines) = 2
    /\ EntryLines[1].retailer = "A" /\ EntryLines[1].kind = "up"
    /\ EntryLines[2].retailer = "C" /\ EntryLines[2].kind = "lost"

\* the revenue of a product of a retailer in the two periods of the last call
ProductCurrent(r, q) ==
    GroupSum(SelectSeq(CurrentRows, LAMBDA x : x.Retailer = r),
             "ProductTitle", q, "SalesDollars")

ProductPrevious(r, q) ==
    GroupSum(SelectSeq(PreviousRows, LAMBDA x : x.Retailer = r),
             "ProductTitle", q, "SalesDollars")

ProductsOf(r) ==
    GroupKeys(SelectSeq(CurrentRows, LAMBDA x : x.Retailer = r), "ProductTitle")
        \cup GroupKeys(SelectSeq(PreviousRows, LAMBDA x : x.Retailer = r), "ProductTitle")

AbsChange(r, q) == Abs(ProductCurrent(r, q) - ProductPrevious(r, q))

\* C18: for each retailer of the narrative at most 3 products are named, and
\* they are the products of that retailer with the largest absolute revenue
\* change between the two periods, ties broken by current-period revenue: no
\* product left out comes before a named one in that order.
C18_TopThreeByAbsoluteChange ==
    NarrativeReturned =>
        \A i \in DOMAIN EntryLines :
            LET r == EntryLines[i].retailer
                named == {EntryLines[i].products[k].name :
                            k \in DOMAIN EntryLines[i].products}
            IN  /\ Len(EntryLines[i].products) <= 3
                /\ \A p \in named : \A q \in ProductsOf(r) \ named :
                        \/ AbsChange(r, p) > AbsChange(r, q)
                        \/ /\ AbsChange(r, p) = AbsChange(r, q)
                           /\ ProductCurrent(r, p) >= ProductCurrent(r, q)

\* the block of a line of the text: 1 for the heading of the increases and
\* the increased and new retailers, 2 for the heading of the decreases and
\* the decreased and lost retailers
BlockOf(line) == IF line.kind \in {"increases", "up", "new"} THEN 1 ELSE 2

\* the revenue a line is ranked by: the previous revenue of a lost retailer,
\* the current revenue of any other
RankingRevenue(line) ==
    IF line.kind = "lost"
    THEN PreviousTotal("Retailer", line.retailer, "SalesDollars")
    ELSE CurrentTotal("Retailer", line.retailer, "SalesDollars")

\* C19: in the text the increases block (increased and new retailers) comes
\* before the decreases block (decreased and lost retailers), each block
\* under its heading; within each block the retailers are in descending
\* current revenue, a lost retailer taking its previous revenue.
C19_BlocksInOrder ==
    (NarrativeReturned /\ output.value # NoThresholdMessage) =>
        LET lines == output.value
        IN  /\ \A i, j \in DOMAIN lines :
                    i < j => BlockOf(lines[i]) <= BlockOf(lines[j])
            /\ \A i \in DOMAIN lines :
                    lines[i].kind \in {"increases", "decreases"} <=>
                        (i = 1 \/ BlockOf(lines[i - 1]) # BlockOf(lines[i]))
            /\ \A i, j \in DOMAIN lines :
                    (/\ i < j
                     /\ lines[i].kind \in EntryKinds
                     /\ lines[j].kind \in EntryKinds
                     /\ BlockOf(lines[i]) = BlockOf(lines[j])) =>
                        RankingRevenue(lines[i]) >= RankingRevenue(lines[j])

\* A up with 1000, B lost with 6000 before, C down with 4000: the lost
\* retailer comes before the decreased one
C19_Witness ==
    /\ NarrativeReturned
    /\ data = ProfileRows("A", <<<<1000, 500>>>>, 1)
                \o ProfileRows("B", <<<<0, 6000>>>>, 1)
                \o ProfileRows("C", <<<<4000, 5000>>>>, 1)
    /\ Len(output.value) = 5
    /\ output.value[1].kind = "increases"
    /\ output.value[2].retailer = "A" /\ output.value[2].kind = "up"
    /\ output.value[3].kind = "decreases"
    /\ output.value[4].retailer = "B" /\ output.value[4].kind = "lost"
    /\ output.value[5].retailer = "C" /\ output.value[5].kind = "down"

\* C20: analyze_performance is a function of the rows, the date range and the
\* view type alone: the text of a run is the text of every run on the same
\* input, whatever the order in which the sets of product names are iterated
\* (also in which products are named when their changes tie).
C20_TextIndependentOfSetOrder ==
    called = "summary_generator.analyze_performance" =>
        \A order \in ProductOrders(GroupKeys(data, "ProductTitle")) :
            output = analyze_performance_result(data, date_range[1], date_range[2],
                                                previous_period, order)

(***************************************************************************)
(* Properties of the rows handed to the computations                       *)
(***************************************************************************)
\* C21: the caller's rows are left unchanged by every core computation: after
\* create_sales_summary_with_comparison, analyze_performance or
\* clean_dimension_values returns, the rows (count, order and every cell,
\* Color and Size included) are as they were before the call.
C21_InputRowsUnchanged == [][called' # "none" => data' = data]_vars

\* a frame whose Color cells change under the cleaning has been cleaned, and
\* the rows of the caller still hold the cell None
C21_Witness ==
    /\ called = "sales_visualizations.clean_dimension_values"
    /\ column = "Color"
    /\ Len(data) = 2
    /\ data[1].Color = PyNone
    /\ output.value[1].Color = NA
    /\ output.value # data

\* the values the cleaning is to replace: nothing (None), the empty string,
\* whitespace only, '0', '0.0' and the tokens nan, None, none, null
IsNullLike(cell) ==
    \/ cell.tag = "None"
    \/ \A i \in DOMAIN cell.s : cell.s[i] \in Whitespace
    \/ cell.s \in { <<"0">>, <<"0", ".", "0">>, <<"n", "a", "n">>,
                    <<"N", "o", "n", "e">>, <<"n", "o", "n", "e">>,
                    <<"n", "u", "l", "l">> }

\* C23: clean_dimension_values replaces every Color/Size value that is empty,
\* whitespace-only, '0', '0.0' or a null-like token (nan, None, none, null) by
\* 'N/A' and leaves every other value unchanged; cleaning the result again
\* changes nothing; for a dimension other than Color or Size the data is
\* returned unchanged.
C23_CleanReplacesNullLike ==
    called = "sales_visualizations.clean_dimension_values" =>
        /\ output.status = "return"
        /\ column \notin {"Color", "Size"} => output.value = data
        /\ column \in {"Color", "Size"} =>
              /\ DOMAIN output.value = DOMAIN data
              /\ \A i \in DOMAIN data :
                    output.value[i] =
                        [data[i] EXCEPT ![column] = IF IsNullLike(@) THEN NA ELSE @]
              /\ clean_dimension_values_frames(output.value, column).returned
                    = output.value

\* a Size column with a cell of two blanks, which is replaced, and a cell with
\* blanks around a letter, which is kept
C23_Witness ==
    /\ called = "sales_visualizations.clean_dimension_values"
    /\ column = "Size"
    /\ Len(data) = 2
    /\ data[1].Size = Str(<<" ", " ">>)
    /\ output.value[1].Size = NA
    /\ data[2].Size = Str(<<" ", "M", " ">>)
    /\ output.value[2].Size = data[2].Size

(***************************************************************************)
(* The order of the rows of the pivot                                      *)
(***************************************************************************)
\* C22: in the pivot comparison output all non-Total rows are in descending
\* order of the current-period measure, and the Total row, when present, is
\* the last row whatever its value.
C22_PivotSortedTotalLast ==
    called \in PivotCalls =>
        /\ output.status = "return"
        /\ \A i, j \in DOMAIN output.value :
              (i < j /\ output.value[i].key # "Total" /\ output.value[j].key # "Total")
                  => output.value[i].Current >= output.value[j].Current
        /\ \A i \in DOMAIN output.value :
              output.value[i].key = "Total" => i = Len(output.value)

\* a pivot of three retailers whose order by value is not their order by name,
\* with the Total row, the largest value of all, after them
C22_Witness ==
    /\ called = "sales_analysis.create_pivot_analysis_with_comparison"
    /\ Len(output.value) = 4
    /\ output.value[1].key = "C"
    /\ output.value[2].key = "A"
    /\ output.value[3].key = "B"
    /\ output.value[1].Current > output.value[2].Current
    /\ output.value[2].Current > output.value[3].Current
    /\ output.value[4].key = "Total"
    /\ output.value[4].Current > output.value[1].Current

(***************************************************************************)
(* Properties of the date filter                                           *)
(***************************************************************************)
\* C24: get_next_weekday(start_date, weekday) returns the first date on or
\* after start_date that falls on the given weekday: start_date itself when
\* it already is that weekday, otherwise the next occurrence within the
\* following 6 days.
C24_FirstOnOrAfter ==
    called = "date_filters.get_next_weekday" =>
        /\ output.status = "return"
        /\ date_weekday(output.value[1].date) = weekday
        /\ output.value[1].date >= date_range[1]
        /\ output.value[1].date <= date_range[1] + 6
        /\ date_weekday(date_range[1]) = weekday => output.value[1].date = date_range[1]

\* a list of dates in strictly ascending order
Ascending(dates) == \A i, j \in DOMAIN dates : i < j => dates[i] < dates[j]

\* C30: get_valid_dates returns non-empty ascending lists aligned to period
\* boundaries: in Weekly view every valid start is a Monday and every valid
\* end a Sunday with start_on_monday (Sunday starts and Saturday ends
\* otherwise), and the last valid end is on or after the latest date of the
\* extended data; in Monthly view the two lists have equal length, and
\* valid_starts[i] is the first day and valid_ends[i] the last day of the same
\* month.
C30_ValidDatesAligned ==
    called = "date_filters.get_valid_dates" =>
        /\ output.status = "return"
        /\ output.value[1].valid_starts # <<>>
        /\ output.value[1].valid_ends # <<>>
        /\ Ascending(output.value[1].valid_starts)
        /\ Ascending(output.value[1].valid_ends)
        /\ view_type = "Weekly" =>
              /\ \A i \in DOMAIN output.value[1].valid_starts :
                    date_weekday(output.value[1].valid_starts[i])
                        = (IF start_on_monday THEN 0 ELSE 6)
              /\ \A i \in DOMAIN output.value[1].valid_ends :
                    date_weekday(output.value[1].valid_ends[i])
                        = (IF start_on_monday THEN 6 ELSE 5)
              /\ output.value[1].valid_ends[Len(output.value[1].valid_ends)]
                    >= DateMax(extend_data_with_future_record(data, view_type))
        /\ view_type = "Monthly" =>
              /\ Len(output.value[1].valid_starts) = Len(output.value[1].valid_ends)
              /\ \A i \in DOMAIN output.value[1].valid_starts :
                    /\ IsMonthStart(output.value[1].valid_starts[i])
                    /\ IsMonthEnd(output.value[1].valid_ends[i])
                    /\ MonthIndex(output.value[1].valid_starts[i])
                          = MonthIndex(output.value[1].valid_ends[i])

\* the three implementations of get_date_range
DateRangeCalls ==
    {"dashboard.get_date_range", "dashboard_components.get_date_range",
     "display_components.get_date_range"}

\* C25: every date range produced by get_date_range for a preset timeframe
\* (1W, 1M, 3M, 6M, 1Y) has start <= end, in every view type and for every
\* span of the data, also after the range is clamped to the earliest and
\* latest date of the data.
C25_StartNotAfterEnd ==
    (called \in DateRangeCalls /\ timeframe # "Custom"
        /\ output.status = "return" /\ output.value # None)
    => output.value[1].start_date <= output.value[1].end_date

\* the number of months a preset is named after
MonthsOfPreset == [tf \in {"3M", "6M", "1Y"} |->
                      IF tf = "3M" THEN 3 ELSE IF tf = "6M" THEN 6 ELSE 12]

\* the data bounds do not cut the preset: its start is after the earliest date
\* of the data, and its end, the last day of the month before today (of the
\* month of the latest date in display_components), is not after the latest
\* date
PresetUnclamped ==
    /\ output.value[1].start_date > DateMin(data)
    /\ IF called = "display_components.get_date_range"
       THEN IsMonthEnd(DateMax(data))
       ELSE DateMax(data) >= Timestamp(Year(today), Month(today), 1) - 1

\* C26: in Monthly view, before clamping to the data bounds, the presets 3M,
\* 6M and 1Y ("Last 3 / 6 / 12 Complete Months") give a range that starts on
\* the first day of a month, ends on the last day of a month and covers
\* exactly 3, 6 and 12 calendar months, for every end month, also across a
\* year boundary.
C26_PresetCoversItsMonths ==
    (called \in DateRangeCalls /\ view_type = "Monthly"
        /\ timeframe \in {"3M", "6M", "1Y"}
        /\ output.status = "return" /\ PresetUnclamped)
    => /\ IsMonthStart(output.value[1].start_date)
       /\ IsMonthEnd(output.value[1].end_date)
       /\ MonthIndex(output.value[1].end_date) - MonthIndex(output.value[1].start_date) + 1
             = MonthsOfPreset[timeframe]

(***************************************************************************)
(* The two date filters of the comparison                                  *)
(***************************************************************************)
\* the calls that compare two periods
ComparisonCalls == SummaryCalls \cup PivotCalls \cup {"summary_generator.analyze_performance"}

\* C28: for every date range and view type, in every implementation of the
\* period comparison, no input row is counted in both the current-period data
\* and the previous-period data: the two date filters select disjoint sets of
\* rows.
C28_FiltersDisjoint ==
    called \in ComparisonCalls =>
        FilterByDate(FilterByDate(data, date_range[1], date_range[2]),
                     previous_period[1], previous_period[2]) = <<>>

\* a range of three days with a row on each of them and on the day before:
\* the current filter selects three rows and the previous one the fourth
C28_Witness ==
    /\ called = "dashboard.create_sales_summary_with_comparison"
    /\ date_range[2] = date_range[1] + 2
    /\ Len(FilterByDate(data, date_range[1], date_range[2])) = 3
    /\ Len(FilterByDate(data, previous_period[1], previous_period[2])) = 1

(***************************************************************************)
(* The four sets of retailers of analyze_performance                       *)
(***************************************************************************)
\* the retailers named on the lines of one kind of the returned text
NamedAs(kind) ==
    {EntryLines[i].retailer : i \in {j \in DOMAIN EntryLines : EntryLines[j].kind = kind}}

\* C29: in analyze_performance the sets of new, lost, significantly increased
\* and significantly decreased retailers are pairwise disjoint, so that every
\* retailer is named on at most one bullet line of the narrative, and a
\* retailer removed by the floor of $1,000 is in none of the four sets.
C29_SetsDisjoint ==
    NarrativeReturned =>
        /\ \A k1, k2 \in EntryKinds :
                k1 # k2 => NamedAs(k1) \cap NamedAs(k2) = {}
        /\ \A i, j \in DOMAIN EntryLines :
                EntryLines[i].retailer = EntryLines[j].retailer => i = j
        /\ \A r \in (CurrentKeys("Retailer") \cup PreviousKeys("Retailer"))
                        \ PassingRetailers :
                \A k \in EntryKinds : r \notin NamedAs(k)

\* A up by 25%, B lost and C below the floor in both weeks: one line for A,
\* one for B and none for C
C29_Witness ==
    /\ NarrativeReturned
    /\ data = ProfileRows("A", <<<<5000, 4000>>>>, 1)
                \o ProfileRows("B", <<<<0, 6000>>>>, 1)
                \o ProfileRows("C", <<<<800, 700>>>>, 1)
    /\ NamedAs("up") = {"A"}
    /\ NamedAs("lost") = {"B"}
    /\ NamedAs("new") = {} /\ NamedAs("down") = {}
    /\ Len(EntryLines) = 2
    /\ "C" \notin PassingRetailers

(***************************************************************************)
(* The sections of the page after a load error                             *)
(***************************************************************************)
\* the elements of the last run of the page in one tab
Rendered(tab) == SelectSeq(output.value, LAMBDA e : e.tab = tab)

\* the error messages of the last run of the page
ErrorsShown ==
    {output.value[i].text : i \in {j \in DOMAIN output.value : output.value[j].element = "error"}}

SalesSectionRendered ==
    \E i \in DOMAIN output.value : output.value[i].element = "retailer_summary"

ReturnsSectionRendered ==
    \E i \in DOMAIN output.value : output.value[i].element = "returns_analysis"

\* C27: in dashboard.main a structural load error of one data source is shown
\* and suppresses only the section of that source: a returns-data error still
\* leaves the Sales Analysis tab rendered, and a sales-data error still leaves
\* the Returns Analysis tab rendered when returns data loaded successfully.
C27_OnlyTheFailedSection ==
    called = "dashboard.main" =>
        LET sales == load_data_from_gsheet(sheets.sales)
            returns == load_returns_data(sheets.returns)
        IN  /\ ~sales.loaded => sales.error \in ErrorsShown /\ ~SalesSectionRendered
            /\ ~returns.loaded => returns.error \in ErrorsShown /\ ~ReturnsSectionRendered
            /\ sales.loaded => SalesSectionRendered
            /\ returns.loaded => ReturnsSectionRendered

====
